---- MODULE Spec2Model ----
(***************************************************************************)
(* A model of the tsp-compiler front end: the token cursor and the parsing *)
(* loops of the two-pass parser, the verifier that node construction       *)
(* calls, the per-unit processing of Processor.processTspFiles, and the    *)
(* flow-based whitespace normalizer (WhitespaceManagement).                *)
(*                                                                         *)
(* Five specifications share the module:                                   *)
(*   Spec       - Processor.processTspFiles over a sequence of source units*)
(*   SpecWS     - WhitespaceManagement.manageWhitespace run twice on a tree*)
(*   SpecNone   - the same with the flow of [once] registered as none      *)
(*   SpecParse  - the cursor and the token-consuming loops of the parser   *)
(*   SpecCursor - the operations of the cursor in any order                *)
(***************************************************************************)
EXTENDS Integers, Sequences, FiniteSets, TLC

VARIABLES
    \* ---- the Grammar Registry: objects built when the modules load, never written
    definitions,    \* Definitions.ts: the exported object definitions
    options,        \* Definitions.ts: options = new Options(), the option sets by macro tag
    \* ---- SpecWS: the normalizer
    cmds,           \* Record<string, Command>: the entities handed to manageWhitespace
    wsInput,        \* the tree as it was before the first run
    wsOnce,         \* the tree as it was after the first run
    wsRuns,         \* how many times manageWhitespace has run
    \* ---- Spec: Processor.processTspFiles over a list of source units
    pc,               \* where the loop over the files stands
    fileIndex,        \* how many units have been started
    unit,             \* the entity declarations of the unit being processed
    references,       \* parser.buildReferences() of the unit, in insertion order
    parseIndex,       \* the iteration of for (const key in references) in parse()
    parserOutput,     \* the entities parse() has built so far
    entities,         \* the entities processTspFiles returns
    entityReferences, \* Verification.entityReferences, the cross-unit map
    initReferences,   \* Verification.initReferences, the Global Variable Records
    errorList,        \* Errors.errorList
    currentSceneryReferences, \* Parser.currentSceneryReferences, the scenery Link Table
    unitLog,          \* history: what happened to each unit that was started
    globalErrors,     \* history: what the whole-program checks of processTsp reported
    \* ---- SpecParse: the Parser and its Cursor over one token list
    tokens,           \* Cursor.tokens, ending with EOF
    index,            \* Cursor.index
    pass,             \* which loop of the two passes the parser is in
    frames,           \* the parsing loops entered and not yet left, innermost last
    keys,             \* the ids pass 1 collected, in insertion order
    keyIndex,         \* the iteration of for (const key in references)
    iterated,         \* history: the last step was an iteration of a parsing loop
    lastIndex         \* history: Cursor.index when that iteration began

registryVars == <<definitions, options>>

wsVars == <<cmds, wsInput, wsOnce, wsRuns>>

procVars == <<pc, fileIndex, unit, references, parseIndex, parserOutput, entities,
              entityReferences, initReferences, errorList, currentSceneryReferences,
              unitLog, globalErrors>>

parseVars == <<tokens, index, pass, frames, keys, keyIndex, iterated, lastIndex>>

vars == <<definitions, options, cmds, wsInput, wsOnce, wsRuns, pc, fileIndex, unit, references, parseIndex,
          parserOutput, entities, entityReferences, initReferences, errorList,
          currentSceneryReferences, unitLog, globalErrors,
          tokens, index, pass, frames, keys, keyIndex, iterated, lastIndex>>

\* JavaScript's undefined, for a property that is absent or holds no value
U == "undefined"

\* the object {}
EmptyObject == [key \in {} |-> U]

\* the processor before its first unit
ProcessorStart ==
    /\ pc = "idle"
    /\ fileIndex = 0
    /\ unit = <<>>
    /\ references = <<>>
    /\ parseIndex = 0
    /\ parserOutput = EmptyObject
    /\ entities = EmptyObject
    /\ entityReferences = EmptyObject
    /\ initReferences = EmptyObject
    /\ errorList = <<>>
    /\ currentSceneryReferences = {}
    /\ unitLog = <<>>
    /\ globalErrors = <<>>

\* a parser that has been given no tokens
ParserStart ==
    /\ tokens = <<>>
    /\ index = 0
    /\ pass = "none"
    /\ frames = <<>>
    /\ keys = <<>>
    /\ keyIndex = 0
    /\ iterated = FALSE
    /\ lastIndex = 0

(***************************************************************************)
(* Text.  A string is a sequence of one-character strings so that trimming *)
(* is computed, not assumed.                                               *)
(***************************************************************************)
isWhitespace(c) == c \in {" ", "\n"}

RECURSIVE trimStart(_)
\* String.replace(/^\s+/, '')
trimStart(s) ==
    IF s = <<>> THEN s
    ELSE IF isWhitespace(Head(s)) THEN trimStart(Tail(s)) ELSE s

RECURSIVE trimEnd(_)
\* String.replace(/\s+$/, '')
trimEnd(s) ==
    IF s = <<>> THEN s
    ELSE IF isWhitespace(s[Len(s)]) THEN trimEnd(SubSeq(s, 1, Len(s) - 1)) ELSE s

\* String.prototype.trim
trim(s) == trimEnd(trimStart(s))

\* the paragraph separator "\n\n"
ParagraphSeparator == <<"\n", "\n">>

(***************************************************************************)
(* The Grammar Registry (Definitions.ts).  Every descriptor is a record of *)
(* the same shape; a property the source leaves out holds U.               *)
(***************************************************************************)
\* the properties of a CommandDefinition that the front end reads
DefProps == {"type", "id", "inlineText", "cond", "rval", "value", "parameters",
             "body", "flow", "entityContainer", "multiplicity", "arguments",
             "settings", "shape", "leadin", "placement", "presence"}

Absent == [p \in DefProps |-> U]

\* an object literal of Definitions.ts: the properties given, the rest absent
Def(props) == props @@ Absent

Definitions ==
    \* ENTITIES
       ("audio"        :> Def([type |-> "entity", id |-> "required"]))
    @@ ("function"     :> Def([type |-> "entity", id |-> "required", parameters |-> "optional", body |-> "required"]))
    @@ ("item"         :> Def([type |-> "entity", id |-> "required", body |-> "required"]))
    @@ ("fixed"        :> Def([type |-> "entity", id |-> "required", body |-> "required"]))
    @@ ("itemdefaults" :> Def([type |-> "entity", id |-> "required", parameters |-> "required", body |-> "required"]))
    @@ ("location"     :> Def([type |-> "location", id |-> "required", body |-> "required", flow |-> "location"]))
    @@ ("npc"          :> Def([type |-> "entity", id |-> "required", body |-> "required"]))
    @@ ("system"       :> Def([type |-> "entity", id |-> "required", body |-> "required"]))
    @@ ("variable"     :> Def([type |-> "variable", id |-> "required", value |-> "required"]))
    \* TEXT
    @@ ("newline"      :> Def([type |-> "text"]))
    @@ ("text"         :> Def([type |-> "text", flow |-> "inline"]))
    @@ ("tostring"     :> Def([type |-> "tostring", id |-> "required", flow |-> "inline"]))
    \* INLINE LINKS
    @@ ("hotlink"      :> Def([type |-> "hotlink", id |-> "required", inlineText |-> "optional", flow |-> "inline"]))
    @@ ("itemlink"     :> Def([type |-> "itemlink", id |-> "required", inlineText |-> "optional", flow |-> "inline"]))
    @@ ("fixedlink"    :> Def([type |-> "fixedlink", id |-> "required", inlineText |-> "optional", flow |-> "inline"]))
    @@ ("npclink"      :> Def([type |-> "npclink", id |-> "required", inlineText |-> "optional", flow |-> "inline"]))
    @@ ("link"         :> Def([type |-> "macro", inlineText |-> "required", cond |-> "optional", flow |-> "structured"]))
    @@ ("scenerylink"  :> Def([type |-> "scenerylink", id |-> "required", inlineText |-> "optional", flow |-> "inline"]))
    \* REFERENCES
    @@ ("entityRef"    :> Def([type |-> "entityRef", id |-> "required", flow |-> "inline"]))
    \* STATEMENTS
    @@ ("visibleitems" :> Def([type |-> "statement", cond |-> "optional", inlineText |-> "optional", settings |-> "object", flow |-> "inline"]))
    @@ ("call"         :> Def([type |-> "statement", id |-> "required", cond |-> "optional", arguments |-> "true"]))
    @@ ("clearEvent"   :> Def([type |-> "statement", id |-> "required", cond |-> "optional"]))
    @@ ("break"        :> Def([type |-> "statement", cond |-> "optional"]))
    @@ ("inventory"    :> Def([type |-> "statement", inlineText |-> "optional", settings |-> "object", cond |-> "optional"]))
    @@ ("dismiss"      :> Def([type |-> "statement", id |-> "required", cond |-> "optional"]))
    @@ ("dropitem"     :> Def([type |-> "statement", id |-> "required", cond |-> "optional"]))
    @@ ("goto"         :> Def([type |-> "statement", id |-> "required", cond |-> "optional"]))
    @@ ("hide"         :> Def([type |-> "statement", id |-> "required", cond |-> "optional"]))
    @@ ("look"         :> Def([type |-> "statement"]))
    @@ ("play"         :> Def([type |-> "statement", id |-> "required", cond |-> "optional", settings |-> "object"]))
    @@ ("resume"       :> Def([type |-> "statement", id |-> "required", cond |-> "optional", settings |-> "object"]))
    @@ ("stop"         :> Def([type |-> "statement", id |-> "required", cond |-> "optional", settings |-> "object"]))
    @@ ("takeitem"     :> Def([type |-> "statement", id |-> "required", cond |-> "optional"]))
    @@ ("talk"         :> Def([type |-> "statement", id |-> "required", cond |-> "optional", inlineText |-> "required"]))
    @@ ("topics"       :> Def([type |-> "statement", id |-> "required", cond |-> "optional", flow |-> "inline"]))
    @@ ("triggerEvent" :> Def([type |-> "statement", id |-> "required", cond |-> "optional"]))
    \* ASSIGNMENTS
    @@ ("move"         :> Def([type |-> "assignment", id |-> "required", rval |-> "required"]))
    @@ ("set"          :> Def([type |-> "assignment", id |-> "required", rval |-> "required"]))
    \* MACROS
    @@ ("description"  :> Def([type |-> "macro", cond |-> "optional", flow |-> "block"]))
    @@ ("gate"         :> Def([type |-> "macro", id |-> "required", body |-> "required", cond |-> "required", flow |-> "inline"]))
    @@ ("i"            :> Def([type |-> "macro", body |-> "required", cond |-> "optional", flow |-> "inline"]))
    @@ ("initial"      :> Def([type |-> "macro", cond |-> "optional", body |-> "required"]))
    @@ ("once"         :> Def([type |-> "macro", body |-> "required", cond |-> "optional", inlineText |-> "optional", flow |-> "inline"]))
    @@ ("exiting"      :> Def([type |-> "macro", body |-> "required", cond |-> "optional"]))
    @@ ("present"      :> Def([type |-> "macro", body |-> "required", cond |-> "optional", flow |-> "block"]))
    \* STRUCTURED MACROS
    @@ ("actions"      :> Def([type |-> "macro", body |-> "required", flow |-> "structured", settings |-> "object", shape |-> "object"]))
    @@ ("chain"        :> Def([type |-> "macro", body |-> "required", cond |-> "optional", inlineText |-> "optional", flow |-> "block", settings |-> "object", shape |-> "object"]))
    @@ ("each"         :> Def([type |-> "macro", body |-> "required", cond |-> "optional", flow |-> "structured", shape |-> "object"]))
    @@ ("if"           :> Def([type |-> "macro", cond |-> "required", body |-> "required", flow |-> "structured", shape |-> "object", leadin |-> "true"]))
    @@ ("interface"    :> Def([type |-> "macro", cond |-> "optional", body |-> "required", flow |-> "structured", multiplicity |-> "singular", shape |-> "object"]))
    @@ ("interact"     :> Def([type |-> "macro", id |-> "required", body |-> "required", flow |-> "structured", entityContainer |-> "npc", multiplicity |-> "singular", shape |-> "object"]))
    @@ ("itemui"       :> Def([type |-> "macro", id |-> "idorchild", body |-> "required", flow |-> "structured", entityContainer |-> "item", multiplicity |-> "singular", shape |-> "object", leadin |-> "true"]))
    @@ ("itemselect"   :> Def([type |-> "macro", id |-> "required", inlineText |-> "required", cond |-> "optional", body |-> "required", flow |-> "structured", entityContainer |-> "item", multiplicity |-> "singular", shape |-> "object"]))
    @@ ("presentitemselect" :> Def([type |-> "statement", inlineText |-> "required"]))
    @@ ("scenery"      :> Def([type |-> "macro", body |-> "required", flow |-> "structured", multiplicity |-> "singular", shape |-> "object"]))
    @@ ("settings"     :> Def([type |-> "macro", body |-> "required", multiplicity |-> "singular", shape |-> "object"]))

\* an option descriptor of some shape.options
Opt(props) == Def([type |-> "option"] @@ props)

\* definitions[tag].shape.options, in declaration order
shapeOptions ==
       ("actions"   :> << <<"action", Opt([inlineText |-> "required", body |-> "required", cond |-> "optional", placement |-> "repeatable", presence |-> "required", flow |-> "block"])>> >>)
    @@ ("chain"     :> << <<"intro", Opt([cond |-> "optional", body |-> "required", placement |-> "first", presence |-> "optional", flow |-> "block"])>>,
                          <<"clink", Opt([cond |-> "optional", inlineText |-> "optional", body |-> "required", placement |-> "repeatable", presence |-> "required", flow |-> "block"])>> >>)
    @@ ("each"      :> << <<"step", Opt([body |-> "required", placement |-> "repeatable", presence |-> "optional", flow |-> "inline"])>>,
                          <<"loop", Opt([body |-> "required", placement |-> "last", presence |-> "optional", flow |-> "inline"])>>,
                          <<"hold", Opt([body |-> "required", placement |-> "last", presence |-> "optional", flow |-> "inline"])>> >>)
    @@ ("if"        :> << <<"elseif", Opt([body |-> "required", placement |-> "repeatable", cond |-> "required", presence |-> "optional"])>>,
                          <<"else", Opt([body |-> "required", placement |-> "last", presence |-> "optional"])>> >>)
    @@ ("interface" :> << <<"option", Opt([inlineText |-> "required", cond |-> "optional", presence |-> "required", flow |-> "inline"])>> >>)
    @@ ("interact"  :> << <<"greeting", Opt([cond |-> "optional", body |-> "required", placement |-> "first", presence |-> "optional", flow |-> "inline"])>>,
                          <<"topic", Opt([cond |-> "optional", inlineText |-> "required", body |-> "required", placement |-> "repeatable", presence |-> "required", flow |-> "inline"])>> >>)
    @@ ("itemui"    :> << >>)
    @@ ("itemselect" :> << <<"intro", Opt([body |-> "required", placement |-> "first", presence |-> "required", flow |-> "block"])>>,
                           <<"choice", Opt([id |-> "required", body |-> "required", placement |-> "repeatable", presence |-> "required", flow |-> "block"])>>,
                           <<"default", Opt([body |-> "required", placement |-> "last", presence |-> "optional", flow |-> "block"])>> >>)
    @@ ("scenery"   :> << <<"prop", Opt([id |-> "required", body |-> "required", cond |-> "optional", placement |-> "repeatable", presence |-> "required", flow |-> "block"])>> >>)
    @@ ("settings"  :> << <<"start", Opt([id |-> "required", body |-> "absent", presence |-> "optional"])>>,
                          <<"ifid", Opt([body |-> "absent", inlineText |-> "required", presence |-> "optional"])>>,
                          <<"tsp_version", Opt([body |-> "absent", inlineText |-> "required", presence |-> "optional"])>>,
                          <<"app_version", Opt([body |-> "absent", inlineText |-> "required", presence |-> "optional"])>>,
                          <<"author", Opt([body |-> "absent", inlineText |-> "required", presence |-> "optional"])>>,
                          <<"title", Opt([body |-> "required", presence |-> "optional"])>>,
                          <<"subtitle", Opt([body |-> "required", presence |-> "optional"])>>,
                          <<"summary", Opt([body |-> "required", presence |-> "optional"])>>,
                          <<"copyright", Opt([body |-> "required", presence |-> "optional"])>> >>)

\* the registry once Definitions.ts has been loaded
ModulesLoaded == definitions = Definitions /\ options = shapeOptions

\* definitions.hasOwnProperty(tag)
isCommandDefinition(tag) == tag \in DOMAIN definitions

\* a lookup that falls back to the inline text descriptor
getCommandDefinitionOrText(tag) ==
    IF isCommandDefinition(tag) THEN definitions[tag]
    ELSE Def([type |-> "text", flow |-> "inline"])

\* getCommandDefinition: Absent where the source throws "Undefined command
\* definition"
getCommandDefinition(tag) ==
    IF isCommandDefinition(tag) THEN definitions[tag] ELSE Absent

(***************************************************************************)
(* Command nodes.  body is one of a Command array, a string or undefined:  *)
(* bk says which, text holds the string and body the array.                *)
(***************************************************************************)
\* the data properties every Command holds besides its body
NoData == [id |-> U, inlineText |-> U, cond |-> U, settings |-> U, rval |-> U, value |-> U]

\* a property a CommandData object does not own (hasOwnProperty is false)
NoProp == "noprop"

TextNode(tag, s) ==
    [type |-> "text", tag |-> tag, bk |-> "string", text |-> s, body |-> <<>>] @@ NoData

CmdNode(type, tag, id, body) ==
    [type |-> type, tag |-> tag, id |-> id, bk |-> "array", text |-> <<>>, body |-> body] @@ NoData

\* a node that holds no body property (a link, a statement)
LeafNode(type, tag, id) ==
    [type |-> type, tag |-> tag, id |-> id, bk |-> U, text |-> <<>>, body |-> <<>>] @@ NoData

\* BodyType values, as the flow handlers return them
ArrayBody(b)  == [bk |-> "array",  text |-> <<>>, body |-> b]
bodyOf(cmd)   == [bk |-> cmd.bk, text |-> cmd.text, body |-> cmd.body]
withBody(cmd, b) == [cmd EXCEPT !.bk = b.bk, !.text = b.text, !.body = b.body]

\* JavaScript truthiness of cmd.body
bodyTruthy(cmd) ==
    \/ cmd.bk = "array"
    \/ cmd.bk = "string" /\ cmd.text # <<>>

(***************************************************************************)
(* WhitespaceManagement: the flow-based normalizer.                        *)
(***************************************************************************)
\* the WhitespaceContext of a top-level entity
initialContext ==
    [depth |-> 0, isFirstChild |-> TRUE, isLastChild |-> TRUE,
     previousSiblingType |-> U, nextSiblingType |-> U]

\* childIndex counts from 0 as in the source; parentBody is indexed from 1
createChildContext(parentContext, childIndex, parentBody) ==
    [depth |-> parentContext.depth + 1,
     isFirstChild |-> childIndex = 0,
     isLastChild |-> childIndex = Len(parentBody) - 1,
     previousSiblingType |->
         IF childIndex > 0 THEN parentBody[childIndex].type ELSE U,
     nextSiblingType |->
         IF childIndex < Len(parentBody) - 1 THEN parentBody[childIndex + 2].type ELSE U]

createTextNode(text) == TextNode("text", text)

\* the descriptor the normalizer works with: definitions[cmd.tag], else inline text
getCommandDefinitionSafe(cmd, parentCmd) ==
    IF cmd.tag # U /\ isCommandDefinition(cmd.tag)
    THEN definitions[cmd.tag]
    ELSE Def([type |-> "text", flow |-> "inline"])

\* !cmd.body || !(cmd.body instanceof Array)
notArrayBody(cmd) == ~bodyTruthy(cmd) \/ cmd.bk # "array"

RECURSIVE processWhitespace(_, _, _)

\* preserves all whitespace; every child is processed in place
processInlineFlow(cmd, context) ==
    IF notArrayBody(cmd) THEN bodyOf(cmd)
    ELSE ArrayBody([i \in 1..Len(cmd.body) |->
            withBody(cmd.body[i],
                     processWhitespace(cmd.body[i], cmd,
                                       createChildContext(context, i - 1, cmd.body)))])

\* the forEach of processBlockFlow: what child i (from 1) adds to processed
blockChild(cmd, context, i) ==
    LET child == cmd.body[i] IN
    IF child.type = "text"
    THEN LET text == trim(child.text) IN
         IF text # <<>> THEN <<[child EXCEPT !.text = text]>> ELSE <<>>
    ELSE <<withBody(child,
                    processWhitespace(child, cmd,
                                      createChildContext(context, i - 1, cmd.body)))>>

RECURSIVE blockChildren(_, _, _)
blockChildren(cmd, context, i) ==
    IF i > Len(cmd.body) THEN <<>>
    ELSE blockChild(cmd, context, i) \o blockChildren(cmd, context, i + 1)

\* block flow that injects the leading separator whatever the position
processBlockFlowAlwaysLeading(cmd, context) ==
    IF notArrayBody(cmd) THEN bodyOf(cmd)
    ELSE ArrayBody(
           <<createTextNode(ParagraphSeparator)>>
        \o blockChildren(cmd, context, 1)
        \o (IF ~context.isLastChild THEN <<createTextNode(ParagraphSeparator)>> ELSE <<>>))

\* adds block spacing and trims text content
processBlockFlow(cmd, context) ==
    IF notArrayBody(cmd) THEN bodyOf(cmd)
    ELSE ArrayBody(
           (IF ~context.isFirstChild THEN <<createTextNode(ParagraphSeparator)>> ELSE <<>>)
        \o blockChildren(cmd, context, 1)
        \o (IF ~context.isLastChild THEN <<createTextNode(ParagraphSeparator)>> ELSE <<>>))

\* a structured flow that also drops the children that hold nothing
structuredChildDropEmpty(cmd, context, i) ==
    LET child == cmd.body[i] IN
    IF child.type = "text"
    THEN IF trim(child.text) # <<>> THEN <<child>> ELSE <<>>
    ELSE IF child.body = <<>> THEN <<>>
    ELSE <<withBody(child,
                    processWhitespace(child, cmd,
                                      createChildContext(context, i - 1, cmd.body)))>>

\* the forEach of processStructuredFlow: what child i (from 1) adds to processed
structuredChild(cmd, context, i) ==
    LET child == cmd.body[i] IN
    IF child.type = "text"
    THEN IF trim(child.text) # <<>> THEN <<child>> ELSE <<>>
    ELSE <<withBody(child,
                    processWhitespace(child, cmd,
                                      createChildContext(context, i - 1, cmd.body)))>>

RECURSIVE structuredChildren(_, _, _)
structuredChildren(cmd, context, i) ==
    IF i > Len(cmd.body) THEN <<>>
    ELSE structuredChild(cmd, context, i) \o structuredChildren(cmd, context, i + 1)

\* removes whitespace-only text, lets the children manage themselves
processStructuredFlow(cmd, context) ==
    IF notArrayBody(cmd) THEN bodyOf(cmd)
    ELSE ArrayBody(structuredChildren(cmd, context, 1))

\* location flow that trims every text child, not only the boundary ones
processLocationFlowTrimAll(cmd, context) ==
    IF notArrayBody(cmd) THEN bodyOf(cmd)
    ELSE LET processed == processInlineFlow(cmd, context).body IN
         ArrayBody([i \in 1..Len(processed) |->
                      IF processed[i].type = "text"
                      THEN [processed[i] EXCEPT !.text = trim(@)]
                      ELSE processed[i]])

\* trims the leading whitespace of a first text child, the trailing whitespace
\* of a last text child
processLocationFlow(cmd, context) ==
    IF notArrayBody(cmd) THEN bodyOf(cmd)
    ELSE LET processed == processInlineFlow(cmd, context).body
             n == Len(processed)
             first == [i \in 1..n |->
                         IF i = 1 /\ processed[i].type = "text"
                         THEN [processed[i] EXCEPT !.text = trimStart(@)]
                         ELSE processed[i]]
             last == [i \in 1..n |->
                         IF i = n /\ first[i].type = "text"
                         THEN [first[i] EXCEPT !.text = trimEnd(@)]
                         ELSE first[i]]
         IN ArrayBody(last)

\* returns undefined
processNoneFlow(cmd, context) == [bk |-> U, text |-> <<>>, body |-> <<>>]

\* routes a command to the handler of its flow
processWhitespace(cmd, parent, context) ==
    LET cmdDef == getCommandDefinitionSafe(cmd, parent)
        flowType == IF cmdDef.flow # U THEN cmdDef.flow ELSE "inline"
    IN CASE flowType = "inline"     -> processInlineFlow(cmd, context)
         [] flowType = "block"      -> processBlockFlow(cmd, context)
         [] flowType = "structured" -> processStructuredFlow(cmd, context)
         [] flowType = "location"   -> processLocationFlow(cmd, context)
         [] flowType = "none"       -> processNoneFlow(cmd, context)
         [] OTHER                   -> processInlineFlow(cmd, context)

\* the parent of a top-level entity
null == [tag |-> U]

\* processes every entity of the collection that has a body
manageWhitespace(cs) ==
    [cmdKey \in DOMAIN cs |->
        LET cmd == cs[cmdKey] IN
        IF bodyTruthy(cmd)
        THEN withBody(cmd, processWhitespace(cmd, null, initialContext))
        ELSE cmd]

(***************************************************************************)
(* Trees the parser can hand to the normalizer, up to a node budget.       *)
(***************************************************************************)
MaxNodes == 4       \* nodes below the entity in a generated body
MaxRuns == 2        \* runs of manageWhitespace on one tree

\* what parseTextBlock and parseNewlines construct
TextLeaves ==
    { TextNode("text", <<"a">>),
      TextNode("text", <<" ", "a", " ">>),
      TextNode("newline", <<"\n">>),
      TextNode("newline", <<"\n", "\n">>) }

\* what parseItem constructs for {key}: a node without a body
LinkLeaves == { LeafNode("itemlink", "itemlink", "key") }

\* plain macros with a body: block flow, inline flow
BodyMacroTags == {"present", "once"}

RECURSIVE TreesOfSize(_)
RECURSIVE BodiesOfSize(_)
RECURSIVE OptionsOfSize(_)

\* every body (sequence of nodes) holding exactly n nodes in all
BodiesOfSize(n) ==
    IF n = 0 THEN {<<>>}
    ELSE UNION {{<<t>> \o rest : t \in TreesOfSize(k), rest \in BodiesOfSize(n - k)} :
                k \in 1..n}

\* the body of [actions]: one or more <action> options, n nodes in all
OptionsOfSize(n) ==
    IF n = 0 THEN {<<>>}
    ELSE UNION {{<<CmdNode("macro", "action", U, b)>> \o rest :
                    b \in BodiesOfSize(k - 1), rest \in OptionsOfSize(n - k)} :
                k \in 1..n}

\* every node whose subtree holds exactly n nodes
TreesOfSize(n) ==
    (IF n = 1 THEN TextLeaves \cup LinkLeaves ELSE {})
    \cup {CmdNode("macro", tag, U, b) : tag \in BodyMacroTags, b \in BodiesOfSize(n - 1)}
    \cup (IF n >= 2
          THEN {CmdNode("macro", "actions", U, b) : b \in OptionsOfSize(n - 1)}
          ELSE {})

GeneratedBodies == UNION {BodiesOfSize(n) : n \in 0..MaxNodes}

\* a block macro, a run of inline text, a block macro
BlockTriples ==
    { << CmdNode("macro", "present", U, <<a>>), b, CmdNode("macro", "description", U, <<c>>) >> :
        a \in TextLeaves, b \in {t \in TextLeaves : t.tag = "text"}, c \in TextLeaves }

\* an entity as parseEntity returns it: type and tag are the declared type,
\* id is the lower-cased name and displayName the name as written
Entity(type, id, body) == [displayName |-> "Room"] @@ CmdNode(type, type, id, body)

EntityTypesWS == {"location", "item"}

InputTrees ==
    { ("room" :> Entity(type, "room", b)) : type \in EntityTypesWS,
                                            b \in GeneratedBodies \cup BlockTriples }
    \cup
    { ("room" :> Entity(type, "room", b)) @@ ("score" :> ([displayName |-> "Score"] @@ LeafNode("variable", "variable", "score"))) :
        type \in EntityTypesWS, b \in BlockTriples }

InitWS ==
    /\ ModulesLoaded
    /\ cmds \in InputTrees
    /\ wsInput = cmds
    /\ wsOnce = cmds
    /\ wsRuns = 0
    /\ ProcessorStart
    /\ ParserStart

\* WhitespaceManagement.manageWhitespace(cmds)
ManageWhitespace ==
    /\ wsRuns < MaxRuns
    /\ cmds' = manageWhitespace(cmds)
    /\ wsOnce' = IF wsRuns = 0 THEN cmds' ELSE wsOnce
    /\ wsRuns' = wsRuns + 1
    /\ UNCHANGED wsInput
    /\ UNCHANGED registryVars
    /\ UNCHANGED procVars
    /\ UNCHANGED parseVars

NextWS == ManageWhitespace

SpecWS == InitWS /\ [][NextWS]_vars

(***************************************************************************)
(* Properties of the normalizer, checked under SpecWS.                     *)
(***************************************************************************)
RECURSIVE textContent(_)
RECURSIVE bodyText(_)
\* the text of a subtree, in document order
textContent(node) ==
    IF node.bk = "string" THEN node.text
    ELSE IF node.bk = "array" THEN bodyText(node.body)
    ELSE <<>>

bodyText(body) ==
    IF body = <<>> THEN <<>> ELSE textContent(Head(body)) \o bodyText(Tail(body))

whitespaceOnly(node) ==
    node.type = "text" /\ node.text # <<>> /\ trim(node.text) = <<>>

\* C2: the normalizer is idempotent: a second run of manageWhitespace on a
\* tree that one run produced leaves the tree as it is.
C2_Idempotent == wsRuns = 2 => cmds = wsOnce

\* C9: an entity body [A block, B inline text, C block] normalizes to A's
\* trimmed text, one paragraph separator, B's text unchanged, one paragraph
\* separator, C's trimmed text; nothing is injected before A or after C.
C9_BlockInlineBlock ==
    (wsRuns = 1 /\ wsInput["room"].body \in BlockTriples) =>
        LET in == wsInput["room"].body
            out == cmds["room"].body
            a == trim(in[1].body[1].text)
            c == trim(in[3].body[1].text)
            kept(t) == IF t = <<>> THEN <<>> ELSE <<t>>
        IN /\ bodyText(out) = a \o ParagraphSeparator \o in[2].text
                                \o ParagraphSeparator \o c
           /\ Len(out) = 3
           /\ out[2] = in[2]
           /\ [i \in 1..Len(out[1].body) |-> out[1].body[i].text] = kept(a) \o <<ParagraphSeparator>>
           /\ [i \in 1..Len(out[3].body) |-> out[3].body[i].text] = <<ParagraphSeparator>> \o kept(c)

\* a normalized [A, B, C] whose three texts all carried surrounding whitespace
C9_Witness ==
    /\ wsRuns = 1
    /\ wsInput["room"].body =
          << CmdNode("macro", "present", U, <<TextNode("text", <<" ", "a", " ">>)>>),
             TextNode("text", <<" ", "a", " ">>),
             CmdNode("macro", "description", U, <<TextNode("text", <<" ", "a", " ">>)>>) >>
    /\ bodyText(cmds["room"].body) = <<"a", "\n", "\n", " ", "a", " ", "\n", "\n", "a">>

NoError == [text |-> U, args |-> <<>>]

\* the verifier's state while one unit is parsed:
\*   errorList                 Errors.errorList
\*   fatal                     the TspError thrown, NoError while none is
\*   entityReferences          Verification.entityReferences
\*   initReferences            Verification.initReferences: id -> InitReference
\*   currentSceneryReferences  Parser.currentSceneryReferences (the ids)
thrown(st) == st.fatal.text # U

addError(st, text, args) ==
    [st EXCEPT !.errorList = Append(@, [type |-> "error", text |-> text, args |-> args])]

addWarning(st, text, args) ==
    [st EXCEPT !.errorList = Append(@, [type |-> "warning", text |-> text, args |-> args])]

\* throw cmderr(...) / throw parserr(...)
cmderr(st, text, args) == [st EXCEPT !.fatal = [text |-> text, args |-> args]]

(***************************************************************************)
(* Options.ts and the descriptor lookups of Verification.                  *)
(***************************************************************************)
\* no parentCommand argument
NoCommand == [type |-> U, tag |-> U, id |-> U]

\* a lookup that finds the option under whichever macro registers it
getOptionDefinitionAnyParent(commandKey, optionKey) ==
    IF \E key \in DOMAIN options :
          \E i \in 1..Len(options[key]) : options[key][i][1] = optionKey
    THEN LET key == CHOOSE k \in DOMAIN options :
                        \E i \in 1..Len(options[k]) : options[k][i][1] = optionKey
             i == CHOOSE j \in 1..Len(options[key]) : options[key][j][1] = optionKey
         IN options[key][i][2]
    ELSE Absent

\* Options.getOptionDefinition: Absent stands for undefined
getOptionDefinition(commandKey, optionKey) ==
    IF commandKey \in DOMAIN options
       /\ \E i \in 1..Len(options[commandKey]) : options[commandKey][i][1] = optionKey
    THEN LET i == CHOOSE j \in 1..Len(options[commandKey]) :
                      options[commandKey][j][1] = optionKey
         IN options[commandKey][i][2]
    ELSE Absent

\* Options.isOptionDefinition: the key is an option of any structured macro
isOptionDefinition(optionKey) ==
    \E commandKey \in DOMAIN options : getOptionDefinition(commandKey, optionKey) # Absent

isStructuredMacro(cmdData) ==
    isCommandDefinition(cmdData.tag) /\ definitions[cmdData.tag].shape # U

\* getCommandOrOptionDef: the parent's option set first, then the command
\* table; Absent where the source throws "Undefined command"
getCommandOrOptionDef(cmdData, parentCommand) ==
    IF parentCommand.tag # U /\ getOptionDefinition(parentCommand.tag, cmdData.tag) # Absent
    THEN getOptionDefinition(parentCommand.tag, cmdData.tag)
    ELSE IF isCommandDefinition(cmdData.tag) THEN definitions[cmdData.tag]
    ELSE Absent

\* JavaScript truthiness of a string property
truthy(v) == v # U /\ v # NoProp /\ v # ""

\* cmdData.hasOwnProperty(prop)
hasOwnProperty(cmdData, prop) ==
    CASE prop = "body" -> cmdData.bk # U
      [] prop \in {"id", "inlineText", "cond", "settings", "rval", "value"} -> cmdData[prop] # NoProp
      [] prop = "type" -> TRUE
      [] OTHER -> FALSE

(***************************************************************************)
(* Verification.verifyComposition and the checks it calls.  Each check     *)
(* maps the verifier state to the verifier state; after a throw the rest   *)
(* of the handler is skipped.                                              *)
(***************************************************************************)
Then(st, F(_)) == IF thrown(st) THEN st ELSE F(st)

\* const value = ...; followed by the statements that read it
Bind(value, F(_)) == F(value)

EntityTypesWithLinks == {"location", "item", "fixed", "npc"}

\* the descriptor properties that can hold state.required, in the order of
\* the descriptor literals ('presence' is skipped by the loop)
RequirableProps == <<"id", "inlineText", "cond", "rval", "value", "parameters", "body">>

RECURSIVE verifyRequiredProps(_, _, _, _)
verifyRequiredProps(st, cmdData, def, i) ==
    IF i > Len(RequirableProps) THEN st
    ELSE LET prop == RequirableProps[i]
             st1 == IF def[prop] = "required" /\ ~hasOwnProperty(cmdData, prop)
                    THEN addError(st, "Missing required property", <<prop, cmdData.tag>>)
                    ELSE st
         IN verifyRequiredProps(st1, cmdData, def, i + 1)

\* the properties of a CommandData object the second loop looks at: 'type',
\* 'op', 'cmdState' are descriptor properties whenever they are set, and
\* 'flowController' is always undefined
CheckedProps == <<"id", "inlineText", "cond", "settings", "rval", "value">>

invalidProperty(cmdData, def, prop) ==
    /\ ~(prop = "settings" /\ def.arguments # U)
    /\ def[prop] = U
    /\ cmdData[prop] # NoProp /\ cmdData[prop] # U

RECURSIVE verifyAllowedProps(_, _, _, _)
verifyAllowedProps(st, cmdData, def, i) ==
    IF i > Len(CheckedProps) THEN st
    ELSE LET prop == CheckedProps[i]
             st1 == IF invalidProperty(cmdData, def, prop)
                    THEN addWarning(st, "Invalid property", <<prop, cmdData.tag>>)
                    ELSE st
         IN verifyAllowedProps(st1, cmdData, def, i + 1)

\* delete cmdData[prop] for every property the second loop rejected
removeInvalidProps(cmdData, def) ==
    [prop \in DOMAIN cmdData |->
        IF prop \in {"id", "inlineText", "cond", "settings", "rval", "value"}
           /\ invalidProperty(cmdData, def, prop)
        THEN NoProp ELSE cmdData[prop]]

\* a verifier that lets every macro into every entity
verifyMacroContainerAnywhere(st, cmdData, macroOrOptionDef, parentCommand) == st

verifyMacroContainer(st, cmdData, macroOrOptionDef, parentCommand) ==
    IF macroOrOptionDef.entityContainer # U
       /\ parentCommand.type # macroOrOptionDef.entityContainer
    THEN addError(addError(st, "Invalid macro in entity", <<cmdData.tag, parentCommand.id>>),
                  "is only valid in entities of type",
                  <<cmdData.tag, macroOrOptionDef.entityContainer>>)
    ELSE st

bodyContains(body, tag) == \E i \in 1..Len(body) : body[i].tag = tag

\* a verifier that records a missing option and goes on
RECURSIVE verifyRequiredOptionsNonFatal(_, _, _, _)
verifyRequiredOptionsNonFatal(st, cmdData, optionDefs, i) ==
    IF i > Len(optionDefs) THEN st
    ELSE LET st1 == IF optionDefs[i][2].presence = "required"
                       /\ ~bodyContains(cmdData.body, optionDefs[i][1])
                    THEN addError(st, "Missing required option", <<optionDefs[i][1], cmdData.tag>>)
                    ELSE st
         IN verifyRequiredOptionsNonFatal(st1, cmdData, optionDefs, i + 1)

RECURSIVE verifyRequiredOptions(_, _, _, _)
verifyRequiredOptions(st, cmdData, optionDefs, i) ==
    IF i > Len(optionDefs) \/ thrown(st) THEN st
    ELSE LET st1 == IF optionDefs[i][2].presence = "required"
                       /\ ~bodyContains(cmdData.body, optionDefs[i][1])
                    THEN cmderr(st, "Missing required option", <<optionDefs[i][1], cmdData.tag>>)
                    ELSE st
         IN verifyRequiredOptions(st1, cmdData, optionDefs, i + 1)

\* a verifier for which a misplaced option is fatal
verifyOptionPlacementFatal(st, cmdData, optionIndex) ==
    IF \E i \in 1..Len(cmdData.body) :
          LET optionDef == getOptionDefinition(cmdData.tag, cmdData.body[i].tag)
          IN \/ optionDef.placement = "first" /\ i # 1
             \/ optionDef.placement = "last" /\ i # Len(cmdData.body)
    THEN cmderr(st, "misplaced option", <<cmdData.tag>>)
    ELSE st

RECURSIVE verifyOptionPlacement(_, _, _)
verifyOptionPlacement(st, cmdData, optionIndex) ==
    LET body == cmdData.body IN
    IF optionIndex >= Len(body) THEN st
    ELSE LET option == body[optionIndex + 1]
             optionDef == getOptionDefinition(cmdData.tag, option.tag)
             st1 == IF optionDef = Absent
                    THEN addError(st, "Invalid option", <<option.tag, cmdData.tag>>)
                    ELSE st
             st2 == IF optionDef.placement = "first" /\ optionIndex # 0
                    THEN addError(st1, "may only be the first option", <<option.tag, cmdData.tag>>)
                    ELSE st1
             st3 == IF optionDef.placement = "last" /\ optionIndex # Len(body) - 1
                    THEN addError(st2, "may only be the last option", <<option.tag, cmdData.tag>>)
                    ELSE st2
         IN verifyOptionPlacement(st3, cmdData, optionIndex + 1)

\* the caller has checked isStructuredMacro, so the options are those of the
\* command table entry for the tag
verifyOptionPresence(st, cmdData) ==
    Then(verifyRequiredOptions(st, cmdData, options[cmdData.tag], 1),
         LAMBDA s : IF cmdData.bk = "array" THEN verifyOptionPlacement(s, cmdData, 0) ELSE s)

\* Command.ts: the keys of globalFuncKeys and of builtInEntities
globalFuncKeys == {"visited", "entries", "present", "encountered", "carried", "handled",
                   "met", "position", "here", "presentitems", "visibleitems", "this"}

builtInEntities == {"player", "offstage"}

\* the properties every object inherits from Object.prototype, which the
\* operator `in` finds on the object an enum compiles to
ObjectPrototypeKeys ==
    {"constructor", "toString", "toLocaleString", "valueOf", "hasOwnProperty",
     "isPrototypeOf", "propertyIsEnumerable", "__proto__"}

\* key in enumObject
In(key, enumKeys) == key \in enumKeys \cup ObjectPrototypeKeys

\* the strings s for which Number(s) is not NaN, among the strings of the model
NumericStrings == {"0", "7"}

\* new InitReference(cmd): usage holds the file of each usage site, order is
\* the rank of the key among the keys of initReferences by insertion, and
\* parameters is cmd.parentEntity.parameters (no declaration of the model
\* has a parameter list)
InitReference(cmd, order) ==
    [id |-> cmd.id, usage |-> <<>>, order |-> order, parameters |-> U]

createVariableReference(st, cmd) ==
    IF truthy(cmd.id)
    THEN IF cmd.id \in DOMAIN st.initReferences
         THEN [st EXCEPT !.initReferences[cmd.id].usage = Append(@, fileIndex)]
         ELSE [st EXCEPT !.initReferences =
                  @ @@ (cmd.id :> [InitReference(cmd, Cardinality(DOMAIN @) + 1)
                                     EXCEPT !.usage = <<fileIndex>>])]
    ELSE cmderr(st, "Missing id property", <<cmd.tag>>)

\* returns true (after creating or extending a Global Variable Record when
\* the id is not an entity reference) unless the id is missing
ensureValidLvalReference(st, cmdData) ==
    IF ~truthy(cmdData.id) \/ cmdData.id \in DOMAIN st.entityReferences
    THEN st
    ELSE createVariableReference(st, cmdData)

checkValidRval(st, rval, lval) ==
    /\ rval # U /\ rval # NoProp
    /\ \/ rval \in DOMAIN st.entityReferences
       \/ rval \in {"true", "false", "on", "off", "yes", "no"}
       \/ rval \in NumericStrings
       \/ truthy(lval) /\ lval \in DOMAIN st.entityReferences
                       /\ rval \in st.entityReferences[lval].flags
       \/ In(rval, globalFuncKeys)
       \/ In(rval, builtInEntities)

verifyReferences(st, cmdData, macroOrOptionDef) ==
    LET st1 == IF macroOrOptionDef.id = "required"
               THEN IF ~truthy(cmdData.id)
                    THEN addError(st, "Missing required id", <<cmdData.tag>>)
                    ELSE ensureValidLvalReference(st, cmdData)
               ELSE st
        st2 == IF macroOrOptionDef.id = "replacebody"
               THEN IF truthy(cmdData.id) /\ truthy(cmdData.inlineText)
                    THEN addError(st1, "cannot have both an id and an inlineText", <<cmdData.tag>>)
                    ELSE st1
               ELSE IF macroOrOptionDef.id # "required" /\ macroOrOptionDef.id # "optional"
                       /\ truthy(cmdData.id)
                    THEN addError(st1, "Forbidden id", <<cmdData.tag>>)
                    ELSE st1
        st3 == IF macroOrOptionDef.rval = "required"
               THEN IF ~truthy(cmdData.rval)
                    THEN addError(st2, "Missing required rval", <<cmdData.tag>>)
                    ELSE IF ~checkValidRval(st2, cmdData.rval, cmdData.id)
                         THEN addError(st2, "Invalid rval reference", <<cmdData.rval, cmdData.tag>>)
                         ELSE st2
               ELSE st2
    IN IF thrown(st1) THEN st1
       ELSE IF macroOrOptionDef.rval # "required" /\ macroOrOptionDef.rval # "optional"
               /\ truthy(cmdData.rval)
            THEN addError(st3, "Forbidden rval", <<cmdData.tag>>)
            ELSE st3

\* cmdData.parentEntity of a link is the entity being parsed
verifySceneryReferences(st, cmdData, parentEntity) ==
    IF cmdData.type = "scenerylink" /\ parentEntity.type \notin EntityTypesWithLinks
    THEN addError(addError(st, "Scenery reference occurs in invalid entity", <<parentEntity.id>>),
                  "Scenery references are only valid in", <<>>)
    ELSE st

verifySceneryOptionIds(st, cmdData, parentEntity) ==
    IF cmdData.tag = "prop" /\ cmdData.id \notin st.currentSceneryReferences
    THEN addError(st, "Invalid scenery reference", <<cmdData.id, parentEntity.id>>)
    ELSE st

\* a verifier that throws on a link to no npc
verifyNpcLinksOrThrow(st, cmdData, parentEntity) ==
    IF cmdData.id \notin DOMAIN st.entityReferences
       \/ st.entityReferences[cmdData.id].type # "npc"
    THEN cmderr(st, "Invalid NPC reference", <<cmdData.id>>)
    ELSE st

verifyNpcLinks(st, cmdData, parentEntity) ==
    LET st1 == IF cmdData.id \notin DOMAIN st.entityReferences
                  \/ st.entityReferences[cmdData.id].type # "npc"
               THEN addError(st, "Invalid NPC reference", <<cmdData.id>>)
               ELSE st
    IN IF parentEntity.type \notin EntityTypesWithLinks
       THEN addError(addError(st1, "NPC reference occurs in invalid entity", <<parentEntity.id>>),
                     "NPC references are only valid in", <<>>)
       ELSE st1

\* verifyComposition: the verifier state after the checks
verifyComposition(st, cmdData, parentEntity, parentCommand) ==
    Bind(getCommandOrOptionDef(cmdData, parentCommand), LAMBDA def :
       IF def = Absent THEN cmderr(st, "Undefined command", <<cmdData.tag>>)
       ELSE
       Bind(removeInvalidProps(cmdData, def), LAMBDA checked :
       Then(verifyAllowedProps(verifyRequiredProps(st, cmdData, def, 1), cmdData, def, 1),
       LAMBDA s1 :
       Then(IF isStructuredMacro(checked) THEN verifyOptionPresence(s1, checked) ELSE s1,
       LAMBDA s2 :
       Then(IF parentCommand # NoCommand
            THEN verifyMacroContainer(s2, checked, def, parentCommand) ELSE s2,
       LAMBDA s3 :
            IF checked.type = "scenerylink" \/ checked.tag = "prop"
            THEN verifySceneryOptionIds(verifySceneryReferences(s3, checked, parentEntity),
                                        checked, parentEntity)
            ELSE IF checked.type = "npclink" THEN verifyNpcLinks(s3, checked, parentEntity)
            ELSE verifyReferences(s3, checked, def))))))

\* Command.construct: the Command built from the verified CommandData; a
\* property the data does not own is undefined in the Command
construct(cmdData, parentCommand) ==
    Bind(getCommandOrOptionDef(cmdData, parentCommand), LAMBDA def :
    Bind(IF def = Absent THEN cmdData ELSE removeInvalidProps(cmdData, def), LAMBDA checked :
       [prop \in DOMAIN checked |->
           IF prop \in {"id", "inlineText", "cond", "settings", "rval", "value"}
              /\ checked[prop] = NoProp
           THEN U ELSE checked[prop]]))

(***************************************************************************)
(* Parser, pass 2.  The input of an entity body is its syntax as the       *)
(* recursive descent nests it: macros with their header fragments and      *)
(* children, option macros, text runs and newline runs.  Every element is  *)
(* parsed, verified and constructed in document order, children before     *)
(* their parent.                                                           *)
(***************************************************************************)
\* String.prototype.toLowerCase on the tags of the model: the mixed-case
\* spellings fold to lower case, which for the camel-case registry keys is
\* no longer a key
MixedCase ==
    ("clearEvent" :> "clearevent") @@ ("triggerEvent" :> "triggerevent")
    @@ ("entityRef" :> "entityref") @@ ("Goto" :> "goto")

toLowerCase(s) == IF s \in DOMAIN MixedCase THEN MixedCase[s] ELSE s

\* [tag id `inlineText`] children [/tag]; id and inlineText are NoProp when
\* the source has none
RawMacro(tag, id, inlineText, children) ==
    [syntax |-> "macro", tag |-> tag, id |-> id, inlineText |-> inlineText,
     rval |-> NoProp, settings |-> NoProp, children |-> children]

\* [tag id to rval]
RawAssignment(tag, id, rval) ==
    [syntax |-> "macro", tag |-> tag, id |-> id, inlineText |-> NoProp,
     rval |-> rval, settings |-> NoProp, children |-> <<>>]

\* <tag id `inlineText`> children
RawOption(tag, id, inlineText, children) ==
    [syntax |-> "option", tag |-> tag, id |-> id, inlineText |-> inlineText,
     rval |-> NoProp, settings |-> NoProp, children |-> children]

\* the header with the settings list ": key" (one key, no value)
WithSettings(raw, key) == [raw EXCEPT !.settings = key]

\* ~id~ and ~id `inlineText`~
RawNpcLink(id, inlineText) ==
    [syntax |-> "npclink", tag |-> "npclink", id |-> id, inlineText |-> inlineText]

\* a PARAGRAPH token and a NEWLINES token
\* ^id^: an inline scenery link
RawScenery(id) == [syntax |-> "scenery", tag |-> "scenerylink", id |-> id, inlineText |-> NoProp]

RawText(s) == [syntax |-> "text", tag |-> "text", text |-> s]

RawNewlines(s) == [syntax |-> "text", tag |-> "newline", text |-> s]

\* the CommandData a header yields: the header loop assigns inlineText, cond
\* and settings on each iteration, so once it has run they are own
\* properties, undefined where the fragment is missing
HeaderData(type, tag, raw) ==
    LET ran == raw.inlineText # NoProp \/ raw.settings # NoProp
    IN [type |-> type, tag |-> tag, id |-> raw.id,
        inlineText |-> IF raw.inlineText = NoProp /\ ran THEN U ELSE raw.inlineText,
        cond |-> IF ran THEN U ELSE NoProp,
        settings |-> IF raw.settings = NoProp /\ ran THEN U ELSE raw.settings,
        rval |-> raw.rval, value |-> NoProp, bk |-> U, text |-> <<>>, body |-> <<>>]

\* macroCanHaveBody; the throw for an id together with an inline body is
\* macroBodyConflict
macroBodyConflict(macro) ==
    /\ macro.type = "macro" /\ definitions[macro.tag].id = "replacebody"
    /\ truthy(macro.id) /\ truthy(macro.inlineText)

macroCanHaveBody(macro) ==
    CASE macro.type = "macro" ->
            ~(definitions[macro.tag].id = "replacebody"
              /\ (truthy(macro.id) \/ truthy(macro.inlineText)))
      [] macro.type \in {"entity", "option"} -> TRUE
      [] OTHER -> FALSE

Parsed(st, cmd) == [st |-> st, cmd |-> cmd]

\* the keys of definitions[tag].settings
settingsKeys ==
       ("visibleitems" :> {"liststyle"}) @@ ("inventory" :> {"liststyle"})
    @@ ("play" :> {"loop", "fade", "volume"}) @@ ("resume" :> {"fade"}) @@ ("stop" :> {"fade"})
    @@ ("actions" :> {"exclude defaults"}) @@ ("chain" :> {"hidelinks"})

\* Verification.verifyMacroSettings(cmdData, settings), called by
\* parseMacroSettings for a settings list: the descriptor is looked up
\* without a parent, for an option too
verifyMacroSettings(st, cmdData, key) ==
    Bind(getCommandOrOptionDef(cmdData, NoCommand), LAMBDA def :
       IF def = Absent THEN cmderr(st, "Undefined command", <<cmdData.tag>>)
       ELSE IF def.settings # U
       THEN IF key \notin settingsKeys[cmdData.tag]
            THEN addError(st, "Invalid settings property", <<key, cmdData.tag>>)
            ELSE st
       ELSE IF def.arguments = U
       THEN addError(st, "Invalid settings", <<cmdData.tag>>)
       ELSE st)

\* the header loop: the diagnostics of parseMacroSettings
parseMacroSettings(st, cmdData, raw) ==
    IF raw.settings # NoProp THEN verifyMacroSettings(st, cmdData, raw.settings)
    ELSE st

RECURSIVE parseElement(_, _, _, _)
RECURSIVE parseCommandList(_, _, _, _)
RECURSIVE parseMacro(_, _, _, _)
RECURSIVE parseOptionMacro(_, _, _, _)

\* the loop of parseEntityBody, parseMacroBody, parseOptionBody and
\* parseStructuredMacroBody: the commands of the elements, in order
parseCommandList(st, raws, parentEntity, parentCommand) ==
    IF raws = <<>> \/ thrown(st) THEN [st |-> st, body |-> <<>>]
    ELSE Bind(parseElement(st, Head(raws), parentEntity, parentCommand), LAMBDA first :
         Bind(parseCommandList(first.st, Tail(raws), parentEntity, parentCommand), LAMBDA rest :
              [st |-> rest.st, body |-> <<first.cmd>> \o rest.body]))

\* parseTextBlock and parseNewlines: Command.construct(text, null, this)
parseTextBlock(st, raw) ==
    Bind([TextNode(raw.tag, raw.text) EXCEPT
             !.id = NoProp, !.inlineText = NoProp, !.cond = NoProp,
             !.settings = NoProp, !.rval = NoProp, !.value = NoProp],
         LAMBDA text :
            Parsed(verifyComposition(st, text, null, NoCommand), construct(text, NoCommand)))

\* parseNpcLink: inlineText is assigned consumeInline() || undefined, so it
\* is an own property; Command.construct(npcLink, parentEntity, this)
parseNpcLink(st, raw, parentEntity) ==
    Bind([type |-> "npclink", tag |-> "npclink", id |-> raw.id,
          inlineText |-> IF truthy(raw.inlineText) THEN raw.inlineText ELSE U,
          cond |-> NoProp, settings |-> NoProp, rval |-> NoProp, value |-> NoProp,
          bk |-> U, text |-> <<>>, body |-> <<>>],
         LAMBDA npcLink :
            Parsed(verifyComposition(st, npcLink, parentEntity, NoCommand),
                   construct(npcLink, NoCommand)))

\* parseScenery: Command.construct(scenery, parentEntity, this, parentEntity),
\* then the link is entered in currentSceneryReferences under its id
parseScenery(st, raw, parentEntity) ==
    Bind([type |-> "scenerylink", tag |-> "scenerylink", id |-> raw.id,
          inlineText |-> IF truthy(raw.inlineText) THEN raw.inlineText ELSE U,
          cond |-> NoProp, settings |-> NoProp, rval |-> NoProp, value |-> NoProp,
          bk |-> U, text |-> <<>>, body |-> <<>>],
         LAMBDA scenery :
         Bind(verifyComposition(st, scenery, parentEntity, parentEntity), LAMBDA st1 :
            Parsed(IF thrown(st1) THEN st1
                   ELSE [st1 EXCEPT !.currentSceneryReferences = @ \cup {raw.id}],
                   construct(scenery, parentEntity))))

parseElement(st, raw, parentEntity, parentCommand) ==
    CASE raw.syntax = "macro" -> parseMacro(st, raw, parentEntity, parentCommand)
      [] raw.syntax = "option" -> parseOptionMacro(st, raw, parentEntity, parentCommand)
      [] raw.syntax = "npclink" -> parseNpcLink(st, raw, parentEntity)
      [] raw.syntax = "scenery" -> parseScenery(st, raw, parentEntity)
      [] OTHER -> parseTextBlock(st, raw)

parseMacro(st, raw, parentEntity, parentCommand) ==
    Bind(toLowerCase(raw.tag), LAMBDA tag :
    Bind(getCommandDefinition(tag), LAMBDA macroDef :
    IF macroDef = Absent
    THEN Parsed(cmderr(st, "Undefined command definition", <<tag>>), null)
    ELSE
    Bind(HeaderData(macroDef.type, tag, raw), LAMBDA header :
    Bind(parseMacroSettings(st, header, raw), LAMBDA st0 :
       IF thrown(st0) THEN Parsed(st0, null)
       ELSE IF macroBodyConflict(header)
       THEN Parsed(cmderr(st0, "cannot have both an id and an inline body", <<tag>>), null)
       ELSE IF ~macroCanHaveBody(header)
       THEN Parsed(verifyComposition(st0, header, parentEntity, parentCommand),
                   construct(header, parentCommand))
       ELSE
       \* the options of a structured macro are constructed with the macro as
       \* parentCommand, the elements of a plain body with none
       Bind(parseCommandList(st0, raw.children, parentEntity,
                             IF isStructuredMacro(header) THEN header ELSE NoCommand),
       LAMBDA inner :
          IF thrown(inner.st) THEN Parsed(inner.st, null)
          ELSE Bind(ArrayBody(inner.body) @@ header, LAMBDA macro :
                  Parsed(verifyComposition(inner.st, macro, parentEntity, parentCommand),
                         construct(macro, parentCommand))))))))

parseOptionMacro(st, raw, parentEntity, parentMacro) ==
    Bind(getOptionDefinition(parentMacro.tag, raw.tag), LAMBDA optionDef :
    IF optionDef = Absent
    THEN Parsed(cmderr(st, "Invalid option tag", <<raw.tag, parentMacro.tag>>), null)
    ELSE
    Bind(optionDef.body # U /\ optionDef.body # "absent", LAMBDA hasBody :
    Bind(parseMacroSettings(st, HeaderData("macro", raw.tag, raw), raw),
    LAMBDA st0 :
    Bind(IF hasBody /\ ~thrown(st0)
         THEN parseCommandList(st0, raw.children, parentEntity, NoCommand)
         ELSE [st |-> st0, body |-> <<>>],
    LAMBDA inner :
       IF thrown(inner.st) THEN Parsed(inner.st, null)
       ELSE Bind(IF hasBody THEN ArrayBody(inner.body) @@ HeaderData("macro", raw.tag, raw)
                 ELSE HeaderData("macro", raw.tag, raw),
            LAMBDA option :
               Parsed(verifyComposition(inner.st, option, parentEntity, parentMacro),
                      construct(option, parentMacro)))))))

\* verifyCommandSingularity, scanning the body from its last element to its
\* first: seen holds the singular tags met so far
RECURSIVE singularityScan(_, _, _, _, _)
singularityScan(st, body, i, seen, kept) ==
    IF i < 1 THEN [st |-> st, body |-> kept]
    ELSE LET cmd == body[i]
             cmdDef == getCommandOrOptionDef(cmd, NoCommand)
         IN IF cmdDef = Absent
            THEN [st |-> cmderr(st, "Undefined command", <<cmd.tag>>), body |-> kept]
            ELSE IF cmd.tag # U /\ cmdDef.multiplicity = "singular"
            THEN IF cmd.tag \in seen
                 THEN singularityScan(addError(st, "Duplicate command", <<cmd.tag>>),
                                      body, i - 1, seen, kept)
                 ELSE singularityScan(st, body, i - 1, seen \cup {cmd.tag}, <<cmd>> \o kept)
            ELSE singularityScan(st, body, i - 1, seen, <<cmd>> \o kept)

verifyCommandSingularity(st, entity) ==
    IF entity.bk = "array"
    THEN LET scan == singularityScan(st, entity.body, Len(entity.body), {}, <<>>)
         IN Parsed(scan.st, [entity EXCEPT !.body = scan.body])
    ELSE Parsed(st, entity)

\* a parser that keeps the scenery links of the entity parsed before
parseEntityKeepLinks(st, currentEntityDef, rawBody) ==
    Bind(parseCommandList(st, rawBody, currentEntityDef, currentEntityDef),
    LAMBDA inner :
    Bind(IF currentEntityDef.type # "variable"
         THEN ArrayBody(inner.body) @@ currentEntityDef
         ELSE currentEntityDef,
    LAMBDA entity :
    Bind(Then(inner.st, LAMBDA s : verifyComposition(s, entity, null, NoCommand)),
    LAMBDA st1 :
       IF thrown(st1) THEN Parsed(st1, null)
       ELSE verifyCommandSingularity(st1, construct(entity, NoCommand)))))

\* parseEntity: the body that follows the next ENTITY_END is parsed for the
\* reference currentEntityDef, which keeps it unless it is a variable; then
\* the entity is constructed and its singular commands are checked
parseEntity(st, currentEntityDef, rawBody) ==
    Bind(parseCommandList([st EXCEPT !.currentSceneryReferences = {}], rawBody,
                          currentEntityDef, currentEntityDef),
    LAMBDA inner :
    Bind(IF currentEntityDef.type # "variable"
         THEN ArrayBody(inner.body) @@ currentEntityDef
         ELSE currentEntityDef,
    LAMBDA entity :
    Bind(Then(inner.st, LAMBDA s : verifyComposition(s, entity, null, NoCommand)),
    LAMBDA st1 :
       IF thrown(st1) THEN Parsed(st1, null)
       ELSE verifyCommandSingularity(st1, construct(entity, NoCommand)))))

(***************************************************************************)
(* Parser, pass 1.  A unit is the sequence of its entity declarations      *)
(* [id, type, value, body].                                                *)
(***************************************************************************)
\* the CommandData parseEntityReference builds for a declaration of unit
\* number file
EntityReference(decl, file) ==
    [type |-> decl.type, tag |-> decl.type, id |-> decl.id, value |-> decl.value,
     inlineText |-> NoProp, cond |-> NoProp, settings |-> NoProp, rval |-> NoProp,
     bk |-> U, text |-> <<>>, body |-> <<>>, file |-> file,
     flags |-> IF "flags" \in DOMAIN decl THEN decl.flags ELSE {}]

\* a merge that lets the later object win
neverDuplicateKeys(keys1, keys2) == FALSE

\* obj2.hasOwnProperty(key) for some key of obj1: combineObjectsUnique throws
hasDuplicateKeys(keys1, keys2) == keys1 \cap keys2 # {}

validEntityType(type) ==
    /\ isCommandDefinition(type)
    /\ definitions[type].type \in {"entity", "location", "variable"}

\* buildReferences: the references of the declarations in insertion order,
\* or the throw of the first declaration that is rejected
RECURSIVE buildReferences(_, _, _, _)
buildReferences(st, decls, file, refs) ==
    IF decls = <<>> \/ thrown(st) THEN [st |-> st, references |-> refs]
    ELSE LET decl == Head(decls)
             ids == {refs[i].id : i \in 1..Len(refs)}
         IN IF getCommandDefinition(decl.type) = Absent
            THEN [st |-> cmderr(st, "Undefined command definition", <<decl.type>>),
                  references |-> refs]
            ELSE IF ~validEntityType(decl.type)
            THEN [st |-> cmderr(st, "Invalid entity type", <<decl.type>>),
                  references |-> refs]
            ELSE IF hasDuplicateKeys(ids, {decl.id})
            THEN [st |-> cmderr(st, "Duplicate key", <<decl.id>>),
                  references |-> refs]
            ELSE buildReferences(st, Tail(decls), file,
                                 Append(refs, EntityReference(decl, file)))

(***************************************************************************)
(* Verification.reduceNewlinesOnAll, run on the parser output of a unit    *)
(* before the normalizer.                                                  *)
(***************************************************************************)
\* shift() if the first element is a newline, pop() if the element that was
\* last is a newline
trimBodyNewlines(commandBody) ==
    LET n == Len(commandBody)
        shifted == IF n > 0 /\ commandBody[1].tag = "newline"
                   THEN Tail(commandBody) ELSE commandBody
    IN IF n > 0 /\ commandBody[n].tag = "newline" /\ shifted # <<>>
       THEN SubSeq(shifted, 1, Len(shifted) - 1)
       ELSE shifted

\* the element at an index (from 1) makes the loop look at the newline before it
cullsPrevious(commandBody, elementIndex, cmd) ==
    /\ elementIndex > 1
    /\ getCommandOrOptionDef(commandBody[elementIndex], cmd).flow \in {U, "none", "structured", "block"}
    /\ commandBody[elementIndex - 1].tag = "newline"
    /\ (elementIndex = 2 \/ commandBody[elementIndex - 2].type # "text")

RECURSIVE reduceNewlinesRecursive(_, _)
reduceNewlinesRecursive(cmd, parentCmd) ==
    IF cmd.bk # "array" THEN cmd
    ELSE
    LET commandFlowType == getCommandOrOptionDef(cmd, parentCmd).flow
        commandBody == IF commandFlowType \in {U, "none", "block", "location"}
                       THEN trimBodyNewlines(cmd.body) ELSE cmd.body
        n == Len(commandBody)
        culled(i) == i < n /\ cullsPrevious(commandBody, i + 1, cmd)
        \* a run of more than two newlines loses one; the elements with a body
        \* are reduced in turn
        element(i) ==
            IF culled(i) /\ Len(commandBody[i].text) > 2
            THEN [commandBody[i] EXCEPT !.text = SubSeq(@, 1, Len(@) - 1)]
            ELSE reduceNewlinesRecursive(commandBody[i], cmd)
        spliced(i) == culled(i) /\ Len(commandBody[i].text) = 1
        RECURSIVE collect(_)
        collect(i) == IF i > n THEN <<>>
                      ELSE (IF spliced(i) THEN <<>> ELSE <<element(i)>>) \o collect(i + 1)
    IN [cmd EXCEPT !.body = collect(1)]

reduceNewlinesOnAll(commands) ==
    [key \in DOMAIN commands |-> reduceNewlinesRecursive(commands[key], NoCommand)]

(***************************************************************************)
(* The order of for (const key in references): the keys that are array     *)
(* indices first, ascending, then the others in insertion order.           *)
(***************************************************************************)
NumberOf == ("0" :> 0) @@ ("7" :> 7)

RECURSIVE ascending(_)
ascending(indexKeys) ==
    IF indexKeys = {} THEN <<>>
    ELSE LET least == CHOOSE k \in indexKeys : \A other \in indexKeys : NumberOf[k] <= NumberOf[other]
         IN <<least>> \o ascending(indexKeys \ {least})

forInKeys(refs) ==
    LET ids == [i \in 1..Len(refs) |-> refs[i].id]
        isIndex(id) == id \in NumericStrings
    IN ascending({ids[i] : i \in 1..Len(ids)} \cap NumericStrings)
       \o SelectSeq(ids, LAMBDA id : ~isIndex(id))

\* references[key]
referenceOf(refs, key) ==
    refs[CHOOSE i \in 1..Len(refs) : refs[i].id = key]

(***************************************************************************)
(* Source units.  Each is a sequence of entity declarations                *)
(*     --- id -- type (value: v) ---  body                                 *)
(* with the body as the parser nests it.                                   *)
(***************************************************************************)
MaxUnits == 3       \* source units in one run of processTspFiles

Decl(id, type, value, body) == [id |-> id, type |-> type, value |-> value, body |-> body]

Words == RawText(<<" ", "a", " ">>)

\* --- id -- location ---  a [goto target]
Room(id, target) ==
    Decl(id, "location", NoProp,
         << RawNewlines(<<"\n">>), Words, RawMacro("goto", target, NoProp, <<>>),
            RawNewlines(<<"\n">>) >>)

Cellar == Decl("cellar", "location", NoProp, << Words >>)

\* [interface]<option `label`>[/interface]
Interface(label) ==
    RawMacro("interface", NoProp, NoProp, << RawOption("option", NoProp, label, <<>>) >>)

\* an item with two [interface] siblings, told apart by their option labels
Desk ==
    Decl("desk", "item", NoProp,
         << Interface("x"), RawNewlines(<<"\n">>), Words, RawNewlines(<<"\n">>),
            Interface("y") >>)

\* an item with one [interface]
Lamp == Decl("lamp", "item", NoProp, << Words, Interface("x") >>)

\* [chain]<clink> a <intro> a [/chain]: the option placed first comes second
Shelf ==
    Decl("shelf", "item", NoProp,
         << RawMacro("chain", NoProp, NoProp,
                     << RawOption("clink", NoProp, NoProp, << Words >>),
                        RawOption("intro", NoProp, NoProp, << Words >>) >>) >>)

\* [interact bob]<topic `x`> a [/interact]
Interact ==
    RawMacro("interact", "bob", NoProp, << RawOption("topic", NoProp, "x", << Words >>) >>)

Yard == Decl("yard", "location", NoProp, << Words, Interact >>)

Bob == Decl("bob", "npc", NoProp, << Interact >>)

\* [actions][/actions]: the required <action> is missing
Attic == Decl("attic", "location", NoProp, << Words, RawMacro("actions", NoProp, NoProp, <<>>) >>)

\* [clearEvent x]: the tag is folded to lower case before it is looked up
Vault == Decl("vault", "location", NoProp, << RawMacro("clearEvent", "x", NoProp, <<>>) >>)

\* --- score -- variable (value: 0) ---  and one without a value
Score(value) == Decl("score", "variable", value, <<>>)

\* --- hall -- goto ---: not an entity type
NotAnEntity == Decl("hall", "goto", NoProp, <<>>)

\* --- den -- room ---: not a registry key
Den == Decl("den", "room", NoProp, << Words >>)

\* --- garden -- location --- with the body " a ~ghost~~bob~"
Garden ==
    Decl("garden", "location", NoProp,
         << Words, RawNpcLink("ghost", NoProp), RawNpcLink("bob", NoProp) >>)

\* --- lodge -- location --- with the body [gate x] a [/gate][gate x `t`] a [/gate]:
\* [gate] must have a conditional; neither header has one, the second has an
\* inline text
Lodge ==
    Decl("lodge", "location", NoProp,
         << RawMacro("gate", "x", NoProp, << Words >>),
            RawMacro("gate", "x", "t", << Words >>) >>)

\* --- nook -- location --- with the body
\* [once : fast] a [/once][chain]<intro `t`> a <clink> a [/chain]:
\* [once] declares no settings, <intro> no inline text
Nook ==
    Decl("nook", "location", NoProp,
         << WithSettings(RawMacro("once", NoProp, NoProp, << Words >>), "fast"),
            RawMacro("chain", NoProp, NoProp,
                     << RawOption("intro", NoProp, "t", << Words >>),
                        RawOption("clink", NoProp, NoProp, << Words >>) >>) >>)

\* --- loft -- location --- with the body [chain]<clink : fast> a [/chain]:
\* <clink> declares no settings
Loft ==
    Decl("loft", "location", NoProp,
         << RawMacro("chain", NoProp, NoProp,
                     << WithSettings(RawOption("clink", NoProp, NoProp, << Words >>),
                                     "fast") >>) >>)

\* --- barn -- location --- with the body
\* [once][interact bob]<topic `x`> a [/interact][/once]: the macro that names
\* the container npc is nested in a plain macro
Barn == Decl("barn", "location", NoProp, << RawMacro("once", NoProp, NoProp, << Interact >>) >>)

\* [scenery]<prop id1> a <prop id2> a [/scenery]
Scenery(id1, id2) ==
    RawMacro("scenery", NoProp, NoProp,
             << RawOption("prop", id1, NoProp, << Words >>),
                RawOption("prop", id2, NoProp, << Words >>) >>)

\* --- grove -- location --- with the body
\* ^tree^ a [scenery]<prop tree> a <prop rock> a [/scenery]^rock^
Grove ==
    Decl("grove", "location", NoProp,
         << RawScenery("tree"), Words, Scenery("tree", "rock"), RawScenery("rock") >>)

\* --- glade -- location --- with the body
\* ^rock^ a [scenery]<prop tree> a <prop rock> a [/scenery]
Glade ==
    Decl("glade", "location", NoProp,
         << RawScenery("rock"), Words, Scenery("tree", "rock") >>)

\* --- 7 -- location --- with the body [goto cellar]: ENTITY_ID_PAT takes any
\* text before the "--" as the id
Seven == Decl("7", "location", NoProp, << RawMacro("goto", "cellar", NoProp, <<>>) >>)

\* [set id to rval]
Set(id, rval) == RawAssignment("set", id, rval)

\* --- study -- location (flags: lit) --- with one [set study to ...] for each
\* kind of value: a flag of study, a boolean, a number, an entity id, a
\* built-in function, a built-in entity, and the inline text `hello`
Study ==
    [flags |-> {"lit"}]
    @@ Decl("study", "location", NoProp,
            << Set("study", "lit"), Set("study", "true"), Set("study", "7"),
               Set("study", "study"), Set("study", "visited"), Set("study", "player"),
               Set("study", "hello") >>)

\* --- closet -- location --- with the body [set closet to constructor]
Closet == Decl("closet", "location", NoProp, << Set("closet", "constructor") >>)

UnitPool ==
    { << Room("hall", "cellar"), Cellar >>,       \* a reference before the declaration
      << Cellar, Room("hall", "cellar") >>,       \* and after it
      << Room("porch", "attic") >>,      \* a reference to an id of another unit
      << Room("stairs", "vault") >>,     \* and to one whose unit ends in a fatal error
      << Desk >>, << Lamp >>, << Shelf >>, << Yard >>, << Bob >>,
      << Garden >>,                       \* links to no npc, and to bob
      << Lodge >>,                        \* a required conditional is missing
      << Barn >>,                         \* a container macro below a plain macro
      << Grove, Glade >>,                 \* props with and without a link before them
      << Cellar, Seven >>,                \* an id that is an array index
      << Study >>, << Closet >>,          \* assignments
      << Nook >>, << Loft >>,             \* properties the descriptor does not have
      << Cellar, Attic >>,                \* fatal while the second entity is parsed
      << Vault >>,                        \* fatal in parseMacro
      << Cellar, Cellar >>,               \* fatal in pass 1
      << NotAnEntity >>, << Den >>,       \* fatal in pass 1
      << Score("0") >>, << Score(NoProp) >> }

(***************************************************************************)
(* Processor.processTspFiles: one iteration of the loop over the files is  *)
(* BuildReferences, MergeReferences, ParseEntity per entity and FinishUnit;*)
(* a throw in any of them lands in the catch clause, which reports, resets *)
(* the diagnostics and goes on with the next file.                         *)
(***************************************************************************)
\* a verifier that does not yet know the references of the unit it parses
VerifierBeforeMerge ==
    [errorList |-> errorList, fatal |-> NoError,
     entityReferences |-> [id \in {k \in DOMAIN entityReferences :
                                      entityReferences[k].file # fileIndex} |->
                              entityReferences[id]],
     initReferences |-> initReferences,
     currentSceneryReferences |-> currentSceneryReferences]

Verifier ==
    [errorList |-> errorList, fatal |-> NoError, entityReferences |-> entityReferences,
     initReferences |-> initReferences,
     currentSceneryReferences |-> currentSceneryReferences]

declaredIds(decls) == {decls[i].id : i \in 1..Len(decls)}

\* the catch clause and the end of the try block both leave this record
Logged(file, decls, fatal, errors) ==
    Append(unitLog, [file |-> file, unit |-> decls, fatal |-> fatal, errorList |-> errors])

\* a catch clause that ends the run
CatchAndStop(st, file, decls) ==
    /\ pc' = "done"
    /\ errorList' = <<>>
    /\ initReferences' = st.initReferences
    /\ unitLog' = Logged(file, decls, st.fatal, st.errorList)
    /\ UNCHANGED <<entities, entityReferences>>

\* catch (err) { if (err instanceof TspError) ... errorsReset() }
Catch(st, file, decls) ==
    /\ pc' = "idle"
    /\ errorList' = <<>>
    /\ initReferences' = st.initReferences
    /\ unitLog' = Logged(file, decls, st.fatal, st.errorList)
    /\ UNCHANGED <<entities, entityReferences>>

\* const parser = new Parser(lexerOutput, fileName); parser.buildReferences()
BuildReferences ==
    /\ pc = "idle"
    /\ fileIndex < MaxUnits
    /\ \E u \in UnitPool :
         LET built == buildReferences(Verifier, u, fileIndex + 1, <<>>) IN
         /\ fileIndex' = fileIndex + 1
         /\ unit' = u
         /\ parseIndex' = 0
         /\ parserOutput' = EmptyObject
         /\ currentSceneryReferences' = {}
         /\ IF thrown(built.st)
            THEN /\ references' = <<>>
                 /\ Catch(built.st, fileIndex + 1, u)
            ELSE /\ references' = built.references
                 /\ pc' = "merge"
                 /\ UNCHANGED <<entities, entityReferences, initReferences, errorList, unitLog>>
    /\ UNCHANGED globalErrors
    /\ UNCHANGED registryVars
    /\ UNCHANGED wsVars
    /\ UNCHANGED parseVars

\* Verification.entityReferences =
\*     combineObjectsUnique(Verification.entityReferences, references)
MergeReferences ==
    /\ pc = "merge"
    /\ LET ids == {references[i].id : i \in 1..Len(references)} IN
       IF hasDuplicateKeys(DOMAIN entityReferences, ids)
       THEN Catch(cmderr(Verifier, "Duplicate key",
                         <<CHOOSE id \in ids : id \in DOMAIN entityReferences>>),
                  fileIndex, unit)
       ELSE /\ entityReferences' =
                 [id \in DOMAIN entityReferences \cup ids |->
                     IF id \in ids THEN referenceOf(references, id) ELSE entityReferences[id]]
            /\ pc' = "parse"
            /\ UNCHANGED <<entities, initReferences, errorList, unitLog>>
    /\ parseIndex' = 1
    /\ UNCHANGED <<fileIndex, unit, references, parserOutput, currentSceneryReferences>>
    /\ UNCHANGED globalErrors
    /\ UNCHANGED registryVars
    /\ UNCHANGED wsVars
    /\ UNCHANGED parseVars

\* one iteration of for (const key in references) in parser.parse(): the
\* key-th reference is given the body that follows the next ENTITY_END
ParseEntity ==
    /\ pc = "parse"
    /\ parseIndex <= Len(references)
    /\ LET key == forInKeys(references)[parseIndex]
           parsed == parseEntity(Verifier, referenceOf(references, key), unit[parseIndex].body)
       IN /\ currentSceneryReferences' = parsed.st.currentSceneryReferences
          /\ IF thrown(parsed.st)
             THEN /\ Catch(parsed.st, fileIndex, unit)
                  /\ UNCHANGED <<parseIndex, parserOutput>>
             ELSE /\ parserOutput' = (key :> parsed.cmd) @@ parserOutput
                  /\ parseIndex' = parseIndex + 1
                  /\ errorList' = parsed.st.errorList
                  /\ initReferences' = parsed.st.initReferences
                  /\ UNCHANGED <<pc, entities, entityReferences, unitLog>>
    /\ UNCHANGED <<fileIndex, unit, references>>
    /\ UNCHANGED globalErrors
    /\ UNCHANGED registryVars
    /\ UNCHANGED wsVars
    /\ UNCHANGED parseVars

\* the rest of the try block: reduceNewlinesOnAll, manageWhitespace,
\* entities = combineObjectsUnique(entities, parserOutput), errorsReset
FinishUnit ==
    /\ pc = "parse"
    /\ parseIndex > Len(references)
    /\ LET output == manageWhitespace(reduceNewlinesOnAll(parserOutput)) IN
       IF hasDuplicateKeys(DOMAIN entities, DOMAIN output)
       THEN Catch(cmderr(Verifier, "Duplicate key",
                         <<CHOOSE id \in DOMAIN output : id \in DOMAIN entities>>),
                  fileIndex, unit)
       ELSE /\ entities' = output @@ entities
            /\ errorList' = <<>>
            /\ unitLog' = Logged(fileIndex, unit, NoError, errorList)
            /\ pc' = "idle"
            /\ UNCHANGED <<entityReferences, initReferences>>
    /\ UNCHANGED <<fileIndex, unit, references, parseIndex, parserOutput,
                   currentSceneryReferences>>
    /\ UNCHANGED globalErrors
    /\ UNCHANGED registryVars
    /\ UNCHANGED wsVars
    /\ UNCHANGED parseVars

(***************************************************************************)
(* Processor.processTsp after its loop over the items: the whole-program   *)
(* checks on the combined entities.                                        *)
(***************************************************************************)
\* Verification.verifyEntitySingularity: a second entity of type system
\* throws (no unit of the model holds a [settings] macro)
verifyEntitySingularity(st, entityRefs) ==
    IF Cardinality({id \in DOMAIN entityRefs : entityRefs[id].type = "system"}) > 1
    THEN cmderr(st, "There may only be one entity of type system", <<>>)
    ELSE st

\* gvar.id in gvar.cmd.parentEntity.parameters: parameters is an array, so
\* the keys it is asked for are its indices and length
verifyLocalVariables(gvar) ==
    /\ gvar.parameters # U
    /\ \/ gvar.id = "length"
       \/ gvar.id \in NumericStrings /\ NumberOf[gvar.id] < Len(gvar.parameters)

\* globalReference.usage.forEach((usage) => addErrorMessage(usage.file, ...))
RECURSIVE reportUsages(_, _, _)
reportUsages(st, gvar, usage) ==
    IF usage = <<>> THEN st
    ELSE reportUsages(addError(st, "Global Variable is not declared anywhere",
                               <<gvar, Head(usage)>>),
                      gvar, Tail(usage))

\* the InitReferences in the order their keys were inserted
byInsertion(refs) ==
    [k \in 1..Cardinality(DOMAIN refs) |-> refs[CHOOSE id \in DOMAIN refs : refs[id].order = k]]

\* for (const gvar in this.initReferences), from the given key on
RECURSIVE verifyGlobalVariablesFrom(_, _, _)
verifyGlobalVariablesFrom(st, entityRefs, gvars) ==
    IF gvars = <<>> THEN st
    ELSE LET gvar == Head(gvars)
             globalReference == st.initReferences[gvar]
         IN IF \/ toLowerCase(gvar) = "this"
               \/ gvar \in builtInEntities
               \/ globalReference.id \in NumericStrings
               \/ globalReference.id \in DOMAIN entityRefs
               \/ verifyLocalVariables(globalReference)
            THEN verifyGlobalVariablesFrom(st, entityRefs, Tail(gvars))
            ELSE verifyGlobalVariablesFrom(reportUsages(st, gvar, globalReference.usage),
                                           entityRefs, Tail(gvars))

verifyInitializedGlobalVariables(st, entityRefs) ==
    verifyGlobalVariablesFrom(st, entityRefs, forInKeys(byInsertion(st.initReferences)))

\* the file list is exhausted: processTspFiles returns entities and
\* processTsp runs verifyEntitySingularity and
\* verifyInitializedGlobalVariables on them (no node of the model carries a
\* conditional for verifyAllConditionals to check), prints the diagnostics
\* under "Global Errors:" and resets the list
Return ==
    /\ pc = "idle"
    /\ pc' = "done"
    /\ Bind(Then(verifyEntitySingularity(Verifier, entities),
                 LAMBDA st : verifyInitializedGlobalVariables(st, entities)),
            LAMBDA st :
               /\ globalErrors' = Append(globalErrors, [fatal |-> st.fatal,
                                                        errorList |-> st.errorList])
               /\ errorList' = <<>>)
    /\ UNCHANGED <<fileIndex, unit, references, parseIndex, parserOutput, entities,
                   entityReferences, initReferences, currentSceneryReferences, unitLog>>
    /\ UNCHANGED registryVars
    /\ UNCHANGED wsVars
    /\ UNCHANGED parseVars

Init ==
    /\ ModulesLoaded
    /\ ProcessorStart
    /\ ParserStart
    /\ cmds = EmptyObject
    /\ wsInput = EmptyObject
    /\ wsOnce = EmptyObject
    /\ wsRuns = 0

Next == BuildReferences \/ MergeReferences \/ ParseEntity \/ FinishUnit \/ Return

Spec == Init /\ [][Next]_vars

(***************************************************************************)
(* Properties of the processor, checked under Spec.                        *)
(***************************************************************************)
\* the units that have been started and have ended, by fatal error or not
Ended == {unitLog[i] : i \in 1..Len(unitLog)}

rejected(entry) == entry.fatal.text # U

\* the unit got past the merge of its references: its ids were new
merged(entry) == entry.fatal.text # "Duplicate key"

\* the ids the final output holds for the unit of a log entry
emittedIds(entry) == {id \in DOMAIN entities : entities[id].file = entry.file}

\* the diagnostics of a log entry that carry the given message
diagnostics(entry, text) == SelectSeq(entry.errorList, LAMBDA e : e.text = text)

\* the direct children of an entity body with the given tag
childrenTagged(body, tag) == SelectSeq(body, LAMBDA c : c.tag = tag)

\* C3: while the entities of a unit are parsed every id the unit declares is
\* already in the verifier's reference set, so a reference to an entity
\* declared later in the unit is treated like one declared earlier: the unit
\* ends without a diagnostic, and no step of its parse creates or extends a
\* Global Variable Record for an id the unit declares.
C3_ForwardReference ==
    /\ [](pc = "parse" => declaredIds(unit) \subseteq DOMAIN entityReferences)
    /\ [](\A entry \in Ended :
            entry.unit \in {<<Room("hall", "cellar"), Cellar>>, <<Cellar, Room("hall", "cellar")>>}
            /\ ~rejected(entry) => entry.errorList = <<>>)
    /\ [][pc = "parse" =>
            \A id \in declaredIds(unit) :
               /\ id \in DOMAIN initReferences' <=> id \in DOMAIN initReferences
               /\ id \in DOMAIN initReferences => initReferences'[id] = initReferences[id]]_vars

\* the unit with the forward reference has been emitted, and a reference to
\* an id no unit declares has left a Global Variable Record
C3_Witness ==
    /\ \E entry \in Ended :
          /\ entry.unit = <<Room("hall", "cellar"), Cellar>> /\ ~rejected(entry)
          /\ emittedIds(entry) = {"hall", "cellar"}
          /\ \E i \in 1..Len(entities["hall"].body) :
                /\ entities["hall"].body[i].tag = "goto"
                /\ entities["hall"].body[i].id = "cellar"
    /\ "cellar" \notin DOMAIN initReferences
    /\ "attic" \in DOMAIN initReferences

\* C4: the final output holds the entities of a unit exactly when the unit
\* ended without a fatal error (all of them then, none of them otherwise),
\* whatever diagnostics it produced; and a unit that ends, fatally or not,
\* leaves the loop at its head, where the next unit is started.
C4_FatalIsPerUnit ==
    /\ [](\A entry \in Ended :
            /\ ~rejected(entry) => emittedIds(entry) = declaredIds(entry.unit)
            /\ rejected(entry) => emittedIds(entry) = {})
    /\ [][Len(unitLog') > Len(unitLog) => pc' = "idle"]_vars
    /\ [](pc = "idle" /\ fileIndex < MaxUnits => ENABLED BuildReferences)

\* a unit rejected while its second entity was parsed, then a unit with a
\* non-fatal diagnostic that is emitted
C4_Witness ==
    /\ Len(unitLog) >= 2
    /\ unitLog[1].unit = <<Cellar, Attic>> /\ rejected(unitLog[1])
    /\ unitLog[2].unit = <<Yard>> /\ ~rejected(unitLog[2]) /\ unitLog[2].errorList # <<>>
    /\ DOMAIN entities = {"yard"}

\* a declaration list in which an id repeats
repeatsAnId(decls) == \E i, j \in 1..Len(decls) : i # j /\ decls[i].id = decls[j].id

\* C5: a merge that meets an id the cross-unit map already holds ends the
\* unit with a fatal error, leaves the map and the output as they were; a
\* unit in which an id repeats is rejected by pass 1; and the output never
\* holds an entity of a rejected unit.
C5_DuplicateIds ==
    /\ [][pc = "merge" /\ declaredIds(unit) \cap DOMAIN entityReferences # {} =>
            /\ entityReferences' = entityReferences
            /\ entities' = entities
            /\ Len(unitLog') = Len(unitLog) + 1
            /\ unitLog'[Len(unitLog')].fatal.text = "Duplicate key"
            /\ unitLog'[Len(unitLog')].file = fileIndex]_vars
    /\ [](\A entry \in Ended :
            /\ repeatsAnId(entry.unit) => rejected(entry)
            /\ rejected(entry) => emittedIds(entry) = {})
    /\ [](\A id \in DOMAIN entities : \A entry \in Ended :
            entry.file = entities[id].file => ~rejected(entry))

\* a second unit was rejected by the merge for an id the first unit declared,
\* and a unit was rejected by pass 1 for an id it declares twice
C5_Witness ==
    /\ Len(unitLog) = 3
    /\ unitLog[1].unit = <<Cellar, Room("hall", "cellar")>> /\ ~rejected(unitLog[1])
    /\ unitLog[2].unit = <<Cellar, Attic>>
    /\ unitLog[2].fatal = [text |-> "Duplicate key", args |-> <<"cellar">>]
    /\ unitLog[3].unit = <<Cellar, Cellar>>
    /\ unitLog[3].fatal = [text |-> "Duplicate key", args |-> <<"cellar">>]
    /\ DOMAIN entityReferences = {"hall", "cellar"}
    /\ entityReferences["cellar"].file = 1
    /\ DOMAIN entities = {"hall", "cellar"}

\* the tags marked singular
singularTags == {tag \in DOMAIN definitions : definitions[tag].multiplicity = "singular"}

\* the declarations in which exactly two direct children share a singular
\* tag, together with those children
twoSiblings(decl, tag) ==
    Len(SelectSeq(decl.body, LAMBDA raw : raw.syntax = "macro" /\ raw.tag = tag)) = 2

\* C6: an emitted entity holds at most one direct child per singular tag, the
\* last one of the source; and a unit whose one entity has exactly two
\* siblings with a singular tag records exactly one diagnostic, of severity
\* warning.
C6_SingularKeepsLast ==
    /\ \A id \in DOMAIN entities : \A tag \in singularTags :
          entities[id].bk = "array" => Len(childrenTagged(entities[id].body, tag)) <= 1
    /\ \A entry \in Ended :
          entry.unit = <<Desk>> /\ ~rejected(entry) =>
             /\ "desk" \in DOMAIN entities
             /\ LET kept == childrenTagged(entities["desk"].body, "interface")
                IN Len(kept) = 1 /\ kept[1].body[1].inlineText = "y"
    /\ \A entry \in Ended :
          Len(entry.unit) = 1 /\ ~rejected(entry)
          /\ (\E tag \in singularTags : twoSiblings(entry.unit[1], tag)) =>
             /\ Len(entry.errorList) = 1
             /\ entry.errorList[1].type = "warning"

\* C7: a [chain] whose <intro>, placed first by its descriptor, comes second
\* records exactly one diagnostic, the placement error; the unit (its id being
\* new) is not rejected, and the emitted macro holds both options in source
\* order.
C7_MisplacedFirstOption ==
    \A entry \in Ended :
       entry.unit = <<Shelf>> /\ merged(entry) =>
          /\ ~rejected(entry)
          /\ entry.errorList = << [type |-> "error", text |-> "may only be the first option",
                                   args |-> <<"intro", "chain">>] >>
          /\ "shelf" \in DOMAIN entities
          /\ LET chain == childrenTagged(entities["shelf"].body, "chain")
             IN /\ Len(chain) = 1
                /\ [i \in 1..Len(chain[1].body) |-> chain[1].body[i].tag] = <<"clink", "intro">>

C7_Witness ==
    \E entry \in Ended :
       /\ entry.unit = <<Shelf>>
       /\ Len(diagnostics(entry, "may only be the first option")) = 1
       /\ entities["shelf"].file = entry.file

\* C8: [interact], whose descriptor names the container npc, as a direct
\* child of the location yard records an error that names the tag interact
\* and the id yard; the unit is not rejected and the emitted location holds
\* the macro.  In the npc bob the same macro records no such error.
C8_NpcMacroInLocation ==
    \A entry \in Ended :
       /\ entry.unit = <<Yard>> /\ merged(entry) =>
             /\ ~rejected(entry)
             /\ \E i \in 1..Len(entry.errorList) :
                   entry.errorList[i] = [type |-> "error", text |-> "Invalid macro in entity",
                                         args |-> <<"interact", "yard">>]
             /\ "yard" \in DOMAIN entities
             /\ Len(childrenTagged(entities["yard"].body, "interact")) = 1
       /\ entry.unit = <<Bob>> /\ merged(entry) =>
             /\ ~rejected(entry)
             /\ diagnostics(entry, "Invalid macro in entity") = <<>>

C8_Witness ==
    /\ \E entry \in Ended :
          /\ entry.unit = <<Yard>>
          /\ Len(diagnostics(entry, "Invalid macro in entity")) = 1
          /\ entities["yard"].file = entry.file
    /\ \E entry \in Ended : entry.unit = <<Bob>> /\ entities["bob"].file = entry.file

(***************************************************************************)
(* The Cursor and the parsing loops of the Parser over a token list.  A    *)
(* step is one iteration of a loop, or the entry into or exit from one;    *)
(* the verification of the commands built on the way is left to Spec.      *)
(* The fragments of the header loops that open with SET_OPEN or            *)
(* MACRO_SETTING are not entered: the token lists hold neither.            *)
(***************************************************************************)
MaxBodyTokens == 3  \* tokens after the first entity header, before EOF

\* the value of a delimiter is never read; the backtick is written ""
Token(type, value) == [type |-> type, value |-> value]

EOF == Token("EOF", "")

\* --- hall -- location ---
EntityHeader(id) ==
    << Token("ENTITY_START", "---"), Token("PHRASE", id), Token("ENTITY_TYPE", "--"),
       Token("WORD", "location"), Token("ENTITY_END", "---") >>

BodyTokens ==
    { Token("MACRO_OPEN", "["), Token("MACRO_CLOSE", "]"), Token("MACRO_END", "[/"),
      Token("WORD", "present"), Token("WORD", "goto"), Token("PHRASE", "x"),
      Token("INLINE_DELIM", ""), Token("PARAGRAPH", "a"), Token("NEWLINES", "\n"),
      Token("ENTITY_START", "---") }

RECURSIVE TokensUpTo(_)
TokensUpTo(n) ==
    IF n = 0 THEN {<<>>}
    ELSE TokensUpTo(n - 1)
         \cup {Append(ts, t) : ts \in {x \in TokensUpTo(n - 1) : Len(x) = n - 1}, t \in BodyTokens}

\* [present `a`] a [goto x] [/present]   and a second entity
WellFormedBody ==
    << Token("MACRO_OPEN", "["), Token("WORD", "present"), Token("INLINE_DELIM", ""),
       Token("PARAGRAPH", "a"), Token("INLINE_DELIM", ""), Token("MACRO_CLOSE", "]"),
       Token("PARAGRAPH", "a"), Token("MACRO_OPEN", "["), Token("WORD", "goto"),
       Token("PHRASE", "x"), Token("MACRO_CLOSE", "]"), Token("NEWLINES", "\n"),
       Token("MACRO_END", "[/"), Token("WORD", "present"), Token("MACRO_CLOSE", "]"),
       Token("NEWLINES", "\n") >>

\* <tag> and <tag `a`>
OptionHeader(tag, inline) ==
    << Token("OPTION_OPEN", "<"), Token("WORD", tag) >>
    \o (IF inline THEN << Token("INLINE_DELIM", ""), Token("PARAGRAPH", "a"),
                          Token("INLINE_DELIM", "") >>
        ELSE <<>>)
    \o << Token("OPTION_CLOSE", ">") >>

\* [tag] or [tag x], and [/tag]
MacroHeader(tag, id) ==
    << Token("MACRO_OPEN", "["), Token("WORD", tag) >>
    \o (IF id # NoProp THEN << Token("PHRASE", id) >> ELSE <<>>)
    \o << Token("MACRO_CLOSE", "]") >>

MacroEnd(tag) == << Token("MACRO_END", "[/"), Token("WORD", tag), Token("MACRO_CLOSE", "]") >>

\* option tags: two of [chain], one of [interact], one of [interface] (which
\* has no body), one of no macro
OptionWords == {"clink", "intro", "topic", "option", "nope"}

\* bodies holding a structured macro, as the lexer tokenizes them:
\*   [chain] <x> a <y> a [/chain]           an option after an option body
\*   [itemui x] a <x> a [/itemui]           an option after a leadin
\*   [itemui x] <x> a [/itemui]             an option where the leadin starts
\*   [itemui x] a [/itemui]                 a leadin and nothing else
\*   [chain] <clink> [present] <x> [/present] [/chain]
\*                                          an option in a macro of an option body
StructuredBodies ==
    { MacroHeader("chain", NoProp) \o << Token("NEWLINES", "\n") >>
      \o OptionHeader(x, inline) \o << Token("PARAGRAPH", "a") >>
      \o OptionHeader(y, FALSE) \o << Token("PARAGRAPH", "a"), Token("NEWLINES", "\n") >>
      \o MacroEnd("chain") : x \in OptionWords, y \in OptionWords, inline \in BOOLEAN }
    \cup
    { MacroHeader("itemui", "x") \o leadin \o OptionHeader(x, FALSE)
      \o << Token("PARAGRAPH", "a") >> \o MacroEnd("itemui") :
         x \in OptionWords, leadin \in {<<>>, << Token("PARAGRAPH", "a") >>} }
    \cup
    { MacroHeader("itemui", "x") \o << Token("PARAGRAPH", "a") >> \o MacroEnd("itemui") }
    \cup
    { MacroHeader("chain", NoProp) \o OptionHeader("clink", FALSE)
      \o MacroHeader("present", NoProp) \o OptionHeader(x, FALSE) \o MacroEnd("present")
      \o MacroEnd("chain") : x \in OptionWords }

TokenLists ==
    {EntityHeader("hall") \o body \o <<EOF>> : body \in TokensUpTo(MaxBodyTokens)}
    \cup {EntityHeader("hall") \o body \o <<EOF>> : body \in StructuredBodies}
    \cup {EntityHeader("hall") \o WellFormedBody \o EntityHeader(id) \o <<EOF>> :
             id \in {"hall", "cellar"}}

\* Cursor.peek at position i, Cursor.isAtEnd, Cursor.check, Cursor.advance and
\* Cursor.match on the position they leave the cursor at
peek(i) == tokens[i + 1]

isAtEnd(i) == peek(i).type = "EOF"

check(i, types) == ~isAtEnd(i) /\ peek(i).type \in types

\* advance without its test of isAtEnd
advanceUnguarded(i) == i + 1

advance(i) == IF isAtEnd(i) THEN i ELSE i + 1

match(i, types) == IF check(i, types) THEN advance(i) ELSE i

\* the position a parse operation leaves the cursor at; thrown says that it
\* raised a TspError on the way
At(i) == [thrown |-> FALSE, index |-> i, id |-> U, tag |-> U, inlineText |-> U]

Throws(i) == [thrown |-> TRUE, index |-> i, id |-> U, tag |-> U, inlineText |-> U]

\* Cursor.consume(type) then the continuation
consume(i, type, K(_)) == IF check(i, {type}) THEN K(advance(i)) ELSE Throws(i)

\* parseEntityReference: ENTITY_START, the id, '--', the type word, ENTITY_END
parseEntityReference(i) ==
    IF ~check(i, {"ENTITY_START"}) THEN Throws(i)
    ELSE consume(match(i, {"ENTITY_START"}), "PHRASE", LAMBDA i2 :
         consume(match(i2, {"ENTITY_TYPE"}), "WORD", LAMBDA i3 :
            LET type == peek(i3 - 1).value IN
            IF ~validEntityType(type) THEN Throws(i3)
            ELSE [At(match(i3, {"ENTITY_END"})) EXCEPT !.id = peek(i2 - 1).value]))

\* the head of parseMacro: MACRO_OPEN, the tag word, an id phrase if there is
\* one; the macro tags of the token lists are not assignments
parseMacroOpen(i) ==
    consume(match(i, {"MACRO_OPEN"}), "WORD", LAMBDA i2 :
        LET tag == toLowerCase(peek(i2 - 1).value) IN
        IF ~isCommandDefinition(tag) THEN Throws(i2)
        ELSE IF check(i2, {"PHRASE"})
             THEN [At(advance(i2)) EXCEPT !.tag = tag, !.id = peek(i2).value]
             ELSE [At(i2) EXCEPT !.tag = tag, !.id = NoProp])

\* tryInlineBody: an inline delimiter, a paragraph, an inline delimiter
tryInlineBody(i) ==
    IF check(i, {"INLINE_DELIM"})
    THEN consume(advance(i), "PARAGRAPH", LAMBDA i2 :
            [At(match(i2, {"INLINE_DELIM"})) EXCEPT !.inlineText = peek(i2 - 1).value])
    ELSE At(i)

\* parseTextBlock: consume(PARAGRAPH) after check(WORD, PHRASE, PARAGRAPH)
parseTextToken(i) == consume(i, "PARAGRAPH", LAMBDA i2 : At(i2))

\* Cursor.seek(ENTITY_END)
RECURSIVE seek(_, _)
seek(i, type) ==
    IF ~check(i, {type}) /\ ~isAtEnd(i) THEN seek(advance(i), type)
    ELSE IF isAtEnd(i) THEN Throws(i)
    ELSE At(advance(i))

RECURSIVE skipNewlines(_)
skipNewlines(i) == IF check(i, {"NEWLINES"}) THEN skipNewlines(advance(i)) ELSE i

\* parseEndMacro
parseEndMacro(i, tag) ==
    LET i2 == match(skipNewlines(i), {"MACRO_END"}) IN
    IF peek(i2).type # "WORD" \/ peek(i2).value # tag THEN Throws(i2)
    ELSE At(match(match(i2, {"WORD"}), {"MACRO_CLOSE"}))

\* Cursor.lookAhead(1) at position i
lookAhead(i) == IF i + 1 >= Len(tokens) THEN tokens[Len(tokens)] ELSE tokens[i + 2]

\* assertOptionMacro: "throw" where the source throws "Invalid option macro"
assertOptionMacro(i, parentTag) ==
    IF parentTag # U /\ check(i, {"OPTION_OPEN"}) /\ lookAhead(i).type = "WORD"
    THEN IF isOptionDefinition(lookAhead(i).value) THEN "true" ELSE "throw"
    ELSE "false"

isMacroEnd(i, tag) ==
    check(i, {"MACRO_END"}) /\ lookAhead(i).type = "WORD" /\ lookAhead(i).value = tag

\* the head of parseOptionMacro: OPTION_OPEN, the tag word, its lookup under
\* the parent, an id phrase if there is one
parseOptionOpen(i, parentTag) ==
    consume(match(i, {"OPTION_OPEN"}), "WORD", LAMBDA i2 :
        LET tag == peek(i2 - 1).value IN
        IF getOptionDefinition(parentTag, tag) = Absent THEN Throws(i2)
        ELSE IF check(i2, {"PHRASE"})
             THEN [At(advance(i2)) EXCEPT !.tag = tag, !.id = peek(i2).value]
             ELSE [At(i2) EXCEPT !.tag = tag, !.id = NoProp])

Frame(loop, open) == [loop |-> loop, tag |-> open.tag, id |-> open.id, inlineText |-> NoProp]

top == frames[Len(frames)]

inLoop(loop) == pass = "parse" /\ frames # <<>> /\ top.loop = loop

pop == SubSeq(frames, 1, Len(frames) - 1)

\* the step was an iteration of a parsing loop that began at the current index
Iteration == iterated' = TRUE /\ lastIndex' = index

NoIteration == iterated' = FALSE /\ lastIndex' = index

\* throw parserr(...) / cursorErr(...): the pass is abandoned
Fatal == pass' = "fatal" /\ frames' = <<>> /\ UNCHANGED <<index, keys, keyIndex>>

Idle == UNCHANGED registryVars /\ UNCHANGED wsVars /\ UNCHANGED procVars /\ UNCHANGED tokens

\* buildReferences: one iteration of while (!this.cursor.isAtEnd()) up to the
\* inner loop, or the end of pass 1 and cursor.reinit() for pass 2
BuildReferencesIteration ==
    /\ pass = "buildReferences"
    /\ IF isAtEnd(index)
       THEN /\ pass' = "parse" /\ index' = 0 /\ keyIndex' = 1
            /\ NoIteration
            /\ UNCHANGED <<frames, keys>>
       ELSE /\ Iteration
            /\ IF check(index, {"NEWLINES"})
               THEN index' = advance(index) /\ UNCHANGED <<pass, frames, keys, keyIndex>>
               ELSE LET entity == parseEntityReference(index) IN
                    IF entity.thrown \/ entity.id \in {keys[i] : i \in 1..Len(keys)}
                    THEN Fatal
                    ELSE /\ index' = entity.index
                         /\ keys' = Append(keys, entity.id)
                         /\ pass' = "skipBody"
                         /\ UNCHANGED <<frames, keyIndex>>
    /\ Idle

\* the inner loop of buildReferences: consumeAny() up to the next entity
SkipBodyIteration ==
    /\ pass = "skipBody"
    /\ IF ~check(index, {"ENTITY_START"}) /\ ~isAtEnd(index)
       THEN index' = advance(index) /\ Iteration /\ UNCHANGED pass
       ELSE pass' = "buildReferences" /\ NoIteration /\ UNCHANGED index
    /\ UNCHANGED <<frames, keys, keyIndex>>
    /\ Idle

\* parse(): one iteration of for (const key in references) up to the body of
\* the entity, or the return of the entities
ParseIteration ==
    /\ pass = "parse" /\ frames = <<>>
    /\ IF keyIndex > Len(keys)
       THEN pass' = "returned" /\ NoIteration /\ UNCHANGED <<index, frames, keys, keyIndex>>
       ELSE LET sought == seek(skipNewlines(index), "ENTITY_END") IN
            /\ Iteration
            /\ IF sought.thrown THEN Fatal
               ELSE /\ index' = sought.index
                    /\ frames' = <<Frame("entityBody", [tag |-> "entity", id |-> keys[keyIndex]])>>
                    /\ UNCHANGED <<pass, keys, keyIndex>>
    /\ Idle

\* the elements every body loop accepts: a macro, a text run, a newline run
BodyElement ==
    CASE check(index, {"MACRO_OPEN"}) ->
            LET open == parseMacroOpen(index) IN
            IF open.thrown THEN Fatal
            ELSE /\ index' = open.index
                 /\ frames' = Append(frames, Frame("macroHeader", open))
                 /\ UNCHANGED <<pass, keys, keyIndex>>
      [] check(index, {"WORD", "PHRASE", "PARAGRAPH"}) ->
            LET text == parseTextToken(index) IN
            IF text.thrown THEN Fatal
            ELSE index' = text.index /\ UNCHANGED <<pass, frames, keys, keyIndex>>
      [] check(index, {"NEWLINES"}) ->
            index' = advance(index) /\ UNCHANGED <<pass, frames, keys, keyIndex>>
      [] OTHER -> FALSE

isBodyElement ==
    check(index, {"MACRO_OPEN", "WORD", "PHRASE", "PARAGRAPH", "NEWLINES"})

\* parseEntityBody: one iteration of
\* while (!check(ENTITY_START) && !isAtEnd())
EntityBodyIteration ==
    /\ inLoop("entityBody")
    /\ ~check(index, {"ENTITY_START"}) /\ ~isAtEnd(index)
    /\ Iteration
    /\ IF isBodyElement THEN BodyElement
       ELSE IF check(index, {"MACRO_END"})
       THEN /\ index' = match(match(match(index, {"MACRO_END"}), {"WORD"}), {"MACRO_CLOSE"})
            /\ UNCHANGED <<pass, frames, keys, keyIndex>>
       ELSE Fatal
    /\ Idle

\* the loop is left: the entity is constructed and parse() goes on
EntityBodyEnd ==
    /\ inLoop("entityBody")
    /\ check(index, {"ENTITY_START"}) \/ isAtEnd(index)
    /\ frames' = <<>>
    /\ keyIndex' = keyIndex + 1
    /\ NoIteration
    /\ UNCHANGED <<index, pass, keys>>
    /\ Idle

\* parseMacro: one iteration of while (!this.cursor.match(MACRO_CLOSE)), the
\* three fragment parsers in turn
MacroHeaderIteration ==
    /\ inLoop("macroHeader")
    /\ ~check(index, {"MACRO_CLOSE"})
    /\ Iteration
    /\ LET inline == tryInlineBody(index) IN
       IF inline.thrown THEN Fatal
       ELSE /\ index' = inline.index
            /\ frames' = [frames EXCEPT ![Len(frames)].inlineText =
                             IF inline.inlineText # U THEN inline.inlineText ELSE @]
            /\ UNCHANGED <<pass, keys, keyIndex>>
    /\ Idle

\* the frame on top enters another loop
enter(loop) == [frames EXCEPT ![Len(frames)].loop = loop]

\* match(MACRO_CLOSE) ends the header: the body loop is entered if the macro
\* can have a body (parseMacroBody, or parseStructuredMacroBody up to its
\* leadin or its loop over the options), else the macro is constructed
MacroHeaderEnd ==
    /\ inLoop("macroHeader")
    /\ check(index, {"MACRO_CLOSE"})
    /\ NoIteration
    /\ LET macro == [type |-> definitions[top.tag].type, tag |-> top.tag, id |-> top.id,
                     inlineText |-> top.inlineText]
           body == skipNewlines(advance(index))
       IN IF macroBodyConflict(macro)
          THEN pass' = "fatal" /\ frames' = <<>> /\ index' = advance(index)
          ELSE IF ~macroCanHaveBody(macro)
          THEN frames' = pop /\ index' = advance(index) /\ UNCHANGED pass
          ELSE IF ~isStructuredMacro(macro)
          THEN frames' = enter("macroBody") /\ index' = advance(index) /\ UNCHANGED pass
          ELSE IF definitions[top.tag].leadin = U
          THEN frames' = enter("structuredBody") /\ index' = body /\ UNCHANGED pass
          ELSE CASE assertOptionMacro(body, top.tag) = "throw" ->
                       pass' = "fatal" /\ frames' = <<>> /\ index' = body
                 [] assertOptionMacro(body, top.tag) = "true" ->
                       frames' = enter("structuredBody") /\ index' = body /\ UNCHANGED pass
                 [] OTHER ->
                       frames' = enter("leadin") /\ index' = body /\ UNCHANGED pass
    /\ UNCHANGED <<keys, keyIndex>>
    /\ Idle

\* parseMacroBody: one iteration of while (!this.cursor.check(MACRO_END))
MacroBodyIteration ==
    /\ inLoop("macroBody")
    /\ ~check(index, {"MACRO_END"})
    /\ Iteration
    /\ IF isBodyElement THEN BodyElement ELSE Fatal
    /\ Idle

\* the loop is left at MACRO_END: parseEndMacro, then the macro is constructed
MacroBodyEnd ==
    /\ inLoop("macroBody")
    /\ check(index, {"MACRO_END"})
    /\ NoIteration
    /\ LET end == parseEndMacro(index, top.tag) IN
       IF end.thrown THEN Fatal
       ELSE index' = end.index /\ frames' = pop /\ UNCHANGED <<pass, keys, keyIndex>>
    /\ Idle

\* parseOptionBody for the leadin of a structured macro, called without the
\* parent tag: one iteration of
\* while (!assertOptionMacro(undefined) && !isMacroEnd(tag)), which an element
\* that no branch takes leaves by break
LeadinIteration ==
    /\ inLoop("leadin")
    /\ assertOptionMacro(index, U) = "false" /\ ~isMacroEnd(index, top.tag)
    /\ isBodyElement
    /\ Iteration
    /\ BodyElement
    /\ Idle

\* the leadin is left: a macro that ends with its leadin returns undefined
\* and parseMacro goes on to parseEndMacro, else the loop over the options
\* is entered after skipAllWhitespace
LeadinEnd ==
    /\ inLoop("leadin")
    /\ isMacroEnd(index, top.tag) \/ ~isBodyElement
    /\ NoIteration
    /\ IF isMacroEnd(index, top.tag)
       THEN LET end == parseEndMacro(index, top.tag) IN
            IF end.thrown THEN Fatal
            ELSE index' = end.index /\ frames' = pop /\ UNCHANGED <<pass, keys, keyIndex>>
       ELSE /\ index' = skipNewlines(index)
            /\ frames' = enter("structuredBody")
            /\ UNCHANGED <<pass, keys, keyIndex>>
    /\ Idle

\* parseStructuredMacroBody: one iteration of
\* while (assertOptionMacro(tag) && !check(MACRO_END)) up to the header loop
\* of parseOptionMacro
StructuredBodyIteration ==
    /\ inLoop("structuredBody")
    /\ assertOptionMacro(index, top.tag) = "true"
    /\ Iteration
    /\ LET open == parseOptionOpen(index, top.tag) IN
       IF open.thrown THEN Fatal
       ELSE /\ index' = open.index
            /\ frames' = Append(frames, Frame("optionHeader", open))
            /\ UNCHANGED <<pass, keys, keyIndex>>
    /\ Idle

\* the test of the loop throws, or the loop is left and parseMacro goes on to
\* parseEndMacro
StructuredBodyEnd ==
    /\ inLoop("structuredBody")
    /\ assertOptionMacro(index, top.tag) # "true"
    /\ NoIteration
    /\ IF assertOptionMacro(index, top.tag) = "throw" THEN Fatal
       ELSE LET end == parseEndMacro(index, top.tag) IN
            IF end.thrown THEN Fatal
            ELSE index' = end.index /\ frames' = pop /\ UNCHANGED <<pass, keys, keyIndex>>
    /\ Idle

\* the structured macro whose option is being parsed
parentMacro == frames[Len(frames) - 1]

\* parseOptionMacro: one iteration of while (!this.cursor.match(OPTION_CLOSE))
OptionHeaderIteration ==
    /\ inLoop("optionHeader")
    /\ ~check(index, {"OPTION_CLOSE"})
    /\ Iteration
    /\ LET inline == tryInlineBody(index) IN
       IF inline.thrown THEN Fatal
       ELSE /\ index' = inline.index
            /\ frames' = [frames EXCEPT ![Len(frames)].inlineText =
                             IF inline.inlineText # U THEN inline.inlineText ELSE @]
            /\ UNCHANGED <<pass, keys, keyIndex>>
    /\ Idle

\* match(OPTION_CLOSE) ends the header: the body loop is entered if the
\* option has a body, else the option is constructed and the loop over the
\* options goes on after skipAllWhitespace
OptionHeaderEnd ==
    /\ inLoop("optionHeader")
    /\ check(index, {"OPTION_CLOSE"})
    /\ NoIteration
    /\ LET optionDef == getOptionDefinition(parentMacro.tag, top.tag) IN
       IF optionDef.body # U /\ optionDef.body # "absent"
       THEN index' = advance(index) /\ frames' = enter("optionBody")
       ELSE index' = skipNewlines(advance(index)) /\ frames' = pop
    /\ UNCHANGED <<pass, keys, keyIndex>>
    /\ Idle

\* parseOptionBody for an option: one iteration of
\* while (!assertOptionMacro(parentMacroTag) && !isMacroEnd(tag))
OptionBodyIteration ==
    /\ inLoop("optionBody")
    /\ assertOptionMacro(index, parentMacro.tag) = "false" /\ ~isMacroEnd(index, top.tag)
    /\ isBodyElement
    /\ Iteration
    /\ BodyElement
    /\ Idle

\* the test of the loop throws, or the loop is left: the end tag of the
\* option is parsed if one follows, the option is constructed and the loop
\* over the options goes on after skipAllWhitespace
OptionBodyEnd ==
    /\ inLoop("optionBody")
    /\ \/ assertOptionMacro(index, parentMacro.tag) # "false"
       \/ isMacroEnd(index, top.tag)
       \/ ~isBodyElement
    /\ NoIteration
    /\ IF assertOptionMacro(index, parentMacro.tag) = "throw" THEN Fatal
       ELSE IF check(index, {"MACRO_END"}) /\ ~isMacroEnd(index, parentMacro.tag)
       THEN LET end == parseEndMacro(index, top.tag) IN
            IF end.thrown THEN Fatal
            ELSE /\ index' = skipNewlines(end.index)
                 /\ frames' = pop
                 /\ UNCHANGED <<pass, keys, keyIndex>>
       ELSE /\ index' = skipNewlines(index)
            /\ frames' = pop
            /\ UNCHANGED <<pass, keys, keyIndex>>
    /\ Idle

InitParse ==
    /\ ModulesLoaded
    /\ tokens \in TokenLists
    /\ index = 0
    /\ pass = "buildReferences"
    /\ frames = <<>>
    /\ keys = <<>>
    /\ keyIndex = 0
    /\ iterated = FALSE
    /\ lastIndex = 0
    /\ ProcessorStart
    /\ cmds = EmptyObject /\ wsInput = EmptyObject /\ wsOnce = EmptyObject /\ wsRuns = 0

NextParse ==
    \/ BuildReferencesIteration \/ SkipBodyIteration \/ ParseIteration
    \/ EntityBodyIteration \/ EntityBodyEnd
    \/ MacroHeaderIteration \/ MacroHeaderEnd
    \/ MacroBodyIteration \/ MacroBodyEnd
    \/ LeadinIteration \/ LeadinEnd
    \/ StructuredBodyIteration \/ StructuredBodyEnd
    \/ OptionHeaderIteration \/ OptionHeaderEnd
    \/ OptionBodyIteration \/ OptionBodyEnd

SpecParse == InitParse /\ [][NextParse]_vars

\* C1: every iteration of a parsing loop leaves the cursor further on than it
\* found it, or raises a fatal error.
C1_LoopsConsume == iterated => index > lastIndex \/ pass = "fatal"

(***************************************************************************)
(* Properties of the whole-program checks, checked under Spec.             *)
(***************************************************************************)
\* the whole-program diagnostics that name the given identifier
reportedFor(id) ==
    SelectSeq(globalErrors[1].errorList,
              LAMBDA e : e.text = "Global Variable is not declared anywhere"
                         /\ e.args[1] = id)

\* C11: an identifier used as a required id that is neither an entity id, a
\* built-in, a number nor a parameter produces no diagnostic while the units
\* are parsed; the whole-program check then records one diagnostic for each
\* of its usage sites, and none if an entity with that id was declared in a
\* unit whose declarations reached the reference set, parsed earlier or later.
C11_DeferredResolution ==
    /\ \A entry \in Ended :
          /\ diagnostics(entry, "Global Variable is not declared anywhere") = <<>>
          /\ entry.unit = <<Room("porch", "attic")>> /\ ~rejected(entry)
                => entry.errorList = <<>>
    /\ pc = "done" /\ globalErrors # <<>> =>
          \A id \in DOMAIN initReferences \ (builtInEntities \cup NumericStrings \cup {"this"}) :
             IF id \in DOMAIN entityReferences
             THEN reportedFor(id) = <<>>
             ELSE /\ Len(reportedFor(id)) = Len(initReferences[id].usage)
                  /\ \A i \in 1..Len(reportedFor(id)) :
                        reportedFor(id)[i].args[2] = initReferences[id].usage[i]

(***************************************************************************)
(* The none flow.  Definitions.ts gives flow.none to no tag, so the        *)
(* handler is reached only once the exported definitions object has been   *)
(* given one: SpecNone runs the normalizer with [once] classified none.    *)
(***************************************************************************)
NoneFlowRegistry == [Definitions EXCEPT !["once"].flow = "none"]

InitNone ==
    /\ definitions = NoneFlowRegistry
    /\ options = shapeOptions
    /\ cmds \in InputTrees
    /\ wsInput = cmds
    /\ wsOnce = cmds
    /\ wsRuns = 0
    /\ ProcessorStart
    /\ ParserStart

SpecNone == InitNone /\ [][NextWS]_vars

\* the tags of the nodes of a body that are not text, in document order;
\* with skipNone the nodes of flow none are left out with their subtrees
RECURSIVE commandTags(_, _)
commandTags(body, skipNone) ==
    IF body = <<>> THEN <<>>
    ELSE (IF \/ Head(body).type = "text"
             \/ skipNone /\ getCommandDefinitionSafe(Head(body), null).flow = "none"
          THEN <<>>
          ELSE <<Head(body).tag>>
               \o (IF Head(body).bk = "array" THEN commandTags(Head(body).body, skipNone)
                   ELSE <<>>))
         \o commandTags(Tail(body), skipNone)

RECURSIVE macroOpens(_)
macroOpens(raws) ==
    IF raws = <<>> THEN {}
    ELSE (IF Head(raws).syntax \notin {"macro", "option"} THEN {}
          ELSE (IF Head(raws).syntax = "macro" THEN {toLowerCase(Head(raws).tag)} ELSE {})
               \cup macroOpens(Head(raws).children))
         \cup macroOpens(Tail(raws))

\* the declared types and macro tags of a unit that are not registry keys
unregistered(decls) ==
    {tag \in UNION {{decls[i].type} \cup macroOpens(decls[i].body) : i \in 1..Len(decls)} :
        ~isCommandDefinition(tag)}

\* the tags of the nodes of a constructed body
RECURSIVE tagsIn(_)
tagsIn(body) ==
    IF body = <<>> THEN {}
    ELSE {Head(body).tag}
         \cup (IF Head(body).bk = "array" THEN tagsIn(Head(body).body) ELSE {})
         \cup tagsIn(Tail(body))

\* the tags of the entities of a collection and of the nodes below them
tagsOf(commands) ==
    UNION {{commands[id].tag} \cup tagsIn(commands[id].body) : id \in DOMAIN commands}

\* C13: a unit that holds a macro-open whose tag, or an entity header whose
\* type, is not a key of the registry ends in a fatal error; unless the
\* merge of its references stopped it first, the error is the one the
\* lookup of that tag raises; none of its entities is emitted, and no node
\* that is built carries a tag that is neither a key nor an option tag.
C13_UnregisteredTagIsFatal ==
    /\ \A entry \in Ended :
          unregistered(entry.unit) # {} =>
             /\ rejected(entry)
             /\ emittedIds(entry) = {}
             /\ merged(entry) =>
                   /\ entry.fatal.text = "Undefined command definition"
                   /\ entry.fatal.args[1] \in unregistered(entry.unit)
    /\ \A tag \in tagsOf(entities) \cup tagsOf(parserOutput) :
          isCommandDefinition(tag) \/ isOptionDefinition(tag)

\* both lookups have thrown in one run, and another unit has been emitted
C13_Witness ==
    /\ \E entry \in Ended :
          /\ entry.unit = <<Vault>>
          /\ entry.fatal = [text |-> "Undefined command definition", args |-> <<"clearevent">>]
    /\ \E entry \in Ended :
          /\ entry.unit = <<Den>>
          /\ entry.fatal = [text |-> "Undefined command definition", args |-> <<"room">>]
    /\ DOMAIN entities # {}

(***************************************************************************)
(* Properties of the option macros of a structured macro, checked under    *)
(* SpecParse.                                                              *)
(***************************************************************************)
\* the frames of the structured macros whose body the cursor is in
structuredFrames ==
    {k \in 1..Len(frames) : frames[k].loop \in {"leadin", "structuredBody"}}

\* the tag of the innermost structured macro whose body the cursor is in
enclosingStructure ==
    frames[CHOOSE k \in structuredFrames : \A l \in structuredFrames : l <= k].tag

\* the option tags the registry holds for the macro
validTags(commandKey) ==
    {options[commandKey][i][1] : i \in 1..Len(options[commandKey])}

\* the cursor is on an option-open token in the body of a structured macro
\* whose option set does not hold the tag
atForeignOption ==
    /\ pass = "parse"
    /\ structuredFrames # {}
    /\ check(index, {"OPTION_OPEN"})
    /\ lookAhead(index).type = "WORD"
    /\ lookAhead(index).value \notin validTags(enclosingStructure)

npcLinksIn(decls) ==
    {raw \in UNION {{decls[i].body[j] : j \in 1..Len(decls[i].body)} : i \in 1..Len(decls)} :
        raw.syntax = "npclink"}

\* the id names no npc entity: the reference set only grows, so it named
\* none when the link was parsed
noNpc(id) == id \notin DOMAIN entityReferences \/ entityReferences[id].type # "npc"

\* the npclink nodes with the given id in the bodies of the entities the
\* unit of a log entry emitted
npcLinkNodes(entry, id) ==
    {<<e, k>> \in emittedIds(entry) \X (1..4) :
        /\ k <= Len(entities[e].body)
        /\ entities[e].body[k].type = "npclink" /\ entities[e].body[k].id = id}

\* C15: a unit whose body holds an inline npc link to an id that names no
\* npc entity, once its references are merged, is parsed to its end without
\* a fatal error: its entities are emitted, the npclink node is in the body
\* and the link is reported by an "Invalid NPC reference" diagnostic of type
\* error in the unit's error list.
C15_UnknownNpcLinkIsNotFatal ==
    \A entry \in Ended : \A raw \in npcLinksIn(entry.unit) :
        merged(entry) /\ noNpc(raw.id) =>
            /\ entry.fatal = NoError
            /\ declaredIds(entry.unit) \subseteq emittedIds(entry)
            /\ npcLinkNodes(entry, raw.id) # {}
            /\ \E i \in 1..Len(entry.errorList) :
                  entry.errorList[i] =
                     [type |-> "error", text |-> "Invalid NPC reference", args |-> <<raw.id>>]

\* garden was parsed before any unit declared bob: both links are reported,
\* both nodes are in the body of the emitted entity
C15_Witness ==
    \E entry \in Ended :
        /\ entry.unit = << Garden >> /\ entry.fatal = NoError
        /\ noNpc("ghost") /\ npcLinkNodes(entry, "ghost") # {}
        /\ Len(diagnostics(entry, "Invalid NPC reference")) = 2
        /\ npcLinkNodes(entry, "bob") # {}

(***************************************************************************)
(* Properties of what the normalizer leaves alone, checked under SpecWS    *)
(* and SpecNone.                                                           *)
(***************************************************************************)
\* the nodes of a body that are not text, in document order, each with its
\* kind, tag and id and with the nodes of its own body that are not text
RECURSIVE nonTextNodes(_)
nonTextNodes(body) ==
    IF body = <<>> THEN <<>>
    ELSE (IF Head(body).type = "text" THEN <<>>
          ELSE << [type |-> Head(body).type, tag |-> Head(body).tag, id |-> Head(body).id,
                   nodes |-> IF Head(body).bk = "array" THEN nonTextNodes(Head(body).body)
                             ELSE <<>>] >>)
         \o nonTextNodes(Tail(body))

\* the same, without the subtrees of the nodes classified none
RECURSIVE nonTextNodesOutsideNone(_)
nonTextNodesOutsideNone(body) ==
    IF body = <<>> THEN <<>>
    ELSE (IF Head(body).type = "text" THEN <<>>
          ELSE << [type |-> Head(body).type, tag |-> Head(body).tag, id |-> Head(body).id,
                   nodes |-> IF Head(body).bk = "array"
                                /\ getCommandDefinitionSafe(Head(body), null).flow # "none"
                             THEN nonTextNodesOutsideNone(Head(body).body)
                             ELSE <<>>] >>)
         \o nonTextNodesOutsideNone(Tail(body))

\* what an entity is apart from its body
entityHead(cmd) ==
    [type |-> cmd.type, id |-> cmd.id, tag |-> cmd.tag, displayName |-> cmd.displayName]

textNodes(body) == SelectSeq(body, LAMBDA c : c.type = "text")

startsWithWhitespace(s) == s # <<>> /\ isWhitespace(s[1])

endsWithWhitespace(s) == s # <<>> /\ isWhitespace(s[Len(s)])

\* C17: after normalization of a location-flow entity the first text node of
\* its body does not start with whitespace and the last text node of its
\* body does not end with whitespace, wherever in the body they are.
C17_FirstAndLastTextTrimmed ==
    \A cmdKey \in DOMAIN cmds :
       LET texts == textNodes(cmds[cmdKey].body) IN
       (wsRuns >= 1 /\ cmds[cmdKey].tag = "location" /\ texts # <<>>) =>
          /\ ~startsWithWhitespace(texts[1].text)
          /\ ~endsWithWhitespace(texts[Len(texts)].text)

(***************************************************************************)
(* Properties of the required properties of a header, checked under Spec.  *)
(***************************************************************************)
\* the header properties a descriptor can mark required
HeaderProps == {"id", "inlineText", "cond", "rval"}

\* the header as written gives the property a value (no header of the model
\* holds a conditional)
written(raw, prop) == prop # "cond" /\ raw[prop] # NoProp

\* the descriptor a macro or an option of a body is verified against
descriptorOf(raw, parentTag) ==
    IF raw.syntax = "option" THEN getOptionDefinition(parentTag, raw.tag)
    ELSE getCommandDefinition(toLowerCase(raw.tag))

\* how many macros and options with the given tag, in the bodies as written,
\* have a descriptor that marks the property required and a header that
\* gives it no value
RECURSIVE missingIn(_, _, _, _)
missingIn(raws, parentTag, prop, tag) ==
    IF raws = <<>> THEN 0
    ELSE LET raw == Head(raws) IN
         (IF raw.syntax \in {"macro", "option"}
          THEN (IF /\ toLowerCase(raw.tag) = tag
                   /\ descriptorOf(raw, parentTag) # Absent
                   /\ descriptorOf(raw, parentTag)[prop] = "required"
                   /\ ~written(raw, prop)
                THEN 1 ELSE 0)
               + missingIn(raw.children, toLowerCase(raw.tag), prop, tag)
          ELSE 0)
         + missingIn(Tail(raws), parentTag, prop, tag)

RECURSIVE missingInUnit(_, _, _)
missingInUnit(decls, prop, tag) ==
    IF decls = <<>> THEN 0
    ELSE missingIn(Head(decls).body, U, prop, tag) + missingInUnit(Tail(decls), prop, tag)

\* the tags of the macros and options of the model's units that have a
\* required header property
HeaderTags == {"gate", "interact", "option", "topic", "clearevent"}

\* C18: in a unit parsed to its end, every macro or option whose descriptor
\* marks a header property required and whose header gives it no value has a
\* "Missing required property" error for that property and tag, whatever
\* else its header holds.
C18_MissingRequiredReported ==
    \A entry \in Ended : \A prop \in HeaderProps : \A tag \in HeaderTags :
        entry.fatal = NoError =>
           Len(SelectSeq(entry.errorList,
                         LAMBDA e : /\ e.type = "error"
                                    /\ e.text = "Missing required property"
                                    /\ e.args = <<prop, tag>>))
              >= missingInUnit(entry.unit, prop, tag)

(***************************************************************************)
(* Properties of the properties a descriptor does not have, checked under  *)
(* Spec.                                                                   *)
(***************************************************************************)
\* the descriptor has no such property (settings are arguments for a
\* descriptor that has arguments)
unrecognized(def, prop) ==
    def # Absent /\ def[prop] = U /\ ~(prop = "settings" /\ def.arguments # U)

\* the pairs <<property, tag>> of the macros and options of the bodies as
\* written whose header gives a value to a property their descriptor does
\* not have
RECURSIVE unrecognizedIn(_, _)
unrecognizedIn(raws, parentTag) ==
    IF raws = <<>> THEN {}
    ELSE LET raw == Head(raws) IN
         (IF raw.syntax \in {"macro", "option"}
          THEN {<<prop, toLowerCase(raw.tag)>> : prop \in
                  {q \in {"id", "inlineText", "settings", "rval"} :
                     raw[q] # NoProp /\ unrecognized(descriptorOf(raw, parentTag), q)}}
               \cup unrecognizedIn(raw.children, toLowerCase(raw.tag))
          ELSE {})
         \cup unrecognizedIn(Tail(raws), parentTag)

unrecognizedInUnit(decls) ==
    UNION {unrecognizedIn(decls[i].body, U) : i \in 1..Len(decls)}

\* no constructed macro or option of the body holds a value for a property
\* its descriptor does not have
RECURSIVE stripped(_, _)
stripped(body, parentCommand) ==
    \A i \in 1..Len(body) :
       LET cmd == body[i] IN
       cmd.type = "macro" =>
          /\ \A prop \in {"id", "inlineText", "settings", "rval"} :
                unrecognized(getCommandOrOptionDef(cmd, parentCommand), prop) => cmd[prop] = U
          /\ cmd.bk = "array" => stripped(cmd.body, cmd)

\* C19: a unit that gives a macro or an option a property its descriptor
\* does not have, a settings list included, is parsed to its end once its
\* references are merged: no fatal error, a warning for every such property,
\* and no constructed node holds the property.
C19_UnrecognizedPropertyStripped ==
    \A entry \in Ended :
       (merged(entry) /\ unrecognizedInUnit(entry.unit) # {}) =>
          /\ entry.fatal = NoError
          /\ \A pair \in unrecognizedInUnit(entry.unit) :
                \E i \in 1..Len(entry.errorList) :
                   entry.errorList[i] =
                      [type |-> "warning", text |-> "Invalid property", args |-> pair]
          /\ \A id \in emittedIds(entry) :
                entities[id].bk = "array" => stripped(entities[id].body, NoCommand)

(***************************************************************************)
(* Properties of the required options of a structured macro, checked       *)
(* under Spec.                                                             *)
(***************************************************************************)
\* the pairs <<option, tag>> of the structured macros of the bodies as
\* written that hold no option their option set marks required
RECURSIVE lackingIn(_)
lackingIn(raws) ==
    IF raws = <<>> THEN {}
    ELSE LET raw == Head(raws)
             tag == toLowerCase(raw.tag)
         IN (IF raw.syntax = "macro" /\ tag \in DOMAIN options
             THEN {<<options[tag][i][1], tag>> : i \in
                     {j \in 1..Len(options[tag]) :
                         /\ options[tag][j][2].presence = "required"
                         /\ \A k \in 1..Len(raw.children) :
                               raw.children[k].tag # options[tag][j][1]}}
             ELSE {})
            \cup (IF raw.syntax \in {"macro", "option"} THEN lackingIn(raw.children) ELSE {})
            \cup lackingIn(Tail(raws))

lackingInUnit(decls) == UNION {lackingIn(decls[i].body) : i \in 1..Len(decls)}

\* C20: a unit with a structured macro whose body lacks a required option is
\* parsed to its end once its references are merged: no fatal error, a
\* "Missing required option" error in its list, its entities emitted.
C20_MissingOptionNonFatal ==
    \A entry \in Ended :
       (merged(entry) /\ lackingInUnit(entry.unit) # {}) =>
          /\ entry.fatal = NoError
          /\ diagnostics(entry, "Missing required option") # <<>>
          /\ declaredIds(entry.unit) \subseteq emittedIds(entry)

\* C20, amended: a unit with a structured macro whose body lacks a required
\* option ends, once its references are merged, in the fatal error "Missing
\* required option" that names the option and the macro; no diagnostic with
\* that message is recorded and the unit emits no entity.
C20_MissingOptionFatal ==
    \A entry \in Ended :
       (merged(entry) /\ lackingInUnit(entry.unit) # {}) =>
          /\ entry.fatal.text = "Missing required option"
          /\ <<entry.fatal.args[1], entry.fatal.args[2]>> \in lackingInUnit(entry.unit)
          /\ diagnostics(entry, "Missing required option") = <<>>
          /\ emittedIds(entry) = {}

\* the unit of cellar and attic ended with the fatal error for [actions],
\* cellar, parsed before it, was not emitted, and a later unit was parsed to
\* its end
C20_Witness ==
    \E i \in 1..Len(unitLog) :
       /\ unitLog[i].unit = << Cellar, Attic >>
       /\ unitLog[i].fatal = [text |-> "Missing required option", args |-> <<"action", "actions">>]
       /\ emittedIds(unitLog[i]) = {}
       /\ \E j \in (i + 1)..Len(unitLog) : unitLog[j].fatal = NoError

(***************************************************************************)
(* Properties of the container constraint, checked under Spec.             *)
(***************************************************************************)
\* the number of macros of the bodies as written, at any depth, whose
\* descriptor names a container other than the tag of the command they are
\* written in
RECURSIVE containerViolations(_, _)
containerViolations(raws, parentTag) ==
    IF raws = <<>> THEN 0
    ELSE LET raw == Head(raws)
             tag == toLowerCase(raw.tag)
         IN (IF raw.syntax = "macro" /\ isCommandDefinition(tag)
                /\ definitions[tag].entityContainer \notin {U, parentTag}
             THEN 1 ELSE 0)
            + (IF raw.syntax \in {"macro", "option"}
               THEN containerViolations(raw.children, tag) ELSE 0)
            + containerViolations(Tail(raws), parentTag)

RECURSIVE containerViolationsInUnit(_)
containerViolationsInUnit(decls) ==
    IF decls = <<>> THEN 0
    ELSE containerViolations(Head(decls).body, Head(decls).type)
         + containerViolationsInUnit(Tail(decls))

\* C21: a unit parsed to its end has recorded one container error for every
\* macro, at any depth, whose descriptor names a container that is not the
\* tag of the command the macro is written in.
C21_ContainerCheckedAtAnyDepth ==
    \A entry \in Ended :
       ~rejected(entry) =>
          Len(diagnostics(entry, "Invalid macro in entity"))
             = containerViolationsInUnit(entry.unit)

(***************************************************************************)
(* Properties of the flow an option is normalized under, checked under     *)
(* SpecWS.                                                                 *)
(***************************************************************************)
\* the bodies of the option nodes of a tree whose descriptor, looked up as
\* the verifier does (under the parent first), declares block flow
RECURSIVE blockOptionBodies(_, _)
blockOptionBodies(body, parentCommand) ==
    IF body = <<>> THEN {}
    ELSE LET cmd == Head(body)
             own == IF cmd.type # "text"
                       /\ getOptionDefinition(parentCommand.tag, cmd.tag) # Absent
                       /\ getCommandOrOptionDef(cmd, parentCommand).flow = "block"
                    THEN {cmd.body} ELSE {}
         IN own
            \cup (IF cmd.bk = "array" THEN blockOptionBodies(cmd.body, cmd) ELSE {})
            \cup blockOptionBodies(Tail(body), parentCommand)

\* C22: an option whose descriptor declares block flow is normalized as a
\* block: after a run of the normalizer every text directly in its body is
\* either a paragraph separator or a text without whitespace at its ends.
C22_OptionFlowFromOptionSet ==
    wsRuns >= 1 =>
       \A cmdKey \in DOMAIN cmds :
          \A body \in blockOptionBodies(cmds[cmdKey].body, cmds[cmdKey]) :
             \A i \in 1..Len(body) :
                body[i].type = "text" =>
                   \/ body[i].text = ParagraphSeparator
                   \/ body[i].text # <<>> /\ body[i].text = trim(body[i].text)

(***************************************************************************)
(* Properties of the scenery Link Table, checked under Spec.               *)
(***************************************************************************)
\* the ids of the <prop> options of a body as written that no scenery link
\* of the same body precedes, in the order they are written; seen holds the
\* ids of the links met so far
RECURSIVE unlinkedProps(_, _)
unlinkedProps(raws, seen) ==
    IF raws = <<>> THEN <<>>
    ELSE LET raw == Head(raws) IN
         CASE raw.syntax = "scenery" -> unlinkedProps(Tail(raws), seen \cup {raw.id})
           [] raw.syntax = "option" /\ raw.tag = "prop" ->
                 (IF raw.id \in seen THEN <<>> ELSE <<raw.id>>)
                 \o unlinkedProps(Tail(raws), seen)
           [] raw.syntax = "macro" ->
                 unlinkedProps(raw.children \o Tail(raws), seen)
           [] OTHER -> unlinkedProps(Tail(raws), seen)

\* the diagnostics the props of a unit are due: the id of the prop and the
\* id of its entity, entity by entity
RECURSIVE propDiagnostics(_)
propDiagnostics(decls) ==
    IF decls = <<>> THEN <<>>
    ELSE LET ids == unlinkedProps(Head(decls).body, {})
         IN [i \in 1..Len(ids) |-> <<ids[i], Head(decls).id>>]
            \o propDiagnostics(Tail(decls))

\* C23: a unit parsed to its end has recorded "Invalid scenery reference ...
\* (will be safely ignored)" for exactly the props that no scenery link of
\* the same id precedes in the same entity, in the order of the props; a
\* link of the entity parsed before validates nothing.
C23_PropNeedsLinkOfSameEntity ==
    \A entry \in Ended :
       ~rejected(entry) =>
          LET recorded == diagnostics(entry, "Invalid scenery reference")
              due == propDiagnostics(entry.unit)
          IN /\ Len(recorded) = Len(due)
             /\ \A i \in 1..Len(due) : recorded[i].args = due[i] /\ recorded[i].type = "error"

\* the unit of grove and glade was parsed to its end: the prop rock of grove
\* (its link comes after it) and the prop tree of glade (its link is in
\* grove) were reported, the prop tree of grove and the prop rock of glade
\* were not
C23_Witness ==
    \E entry \in Ended :
       /\ entry.unit = << Grove, Glade >>
       /\ ~rejected(entry)
       /\ [i \in 1..Len(diagnostics(entry, "Invalid scenery reference")) |->
             diagnostics(entry, "Invalid scenery reference")[i].args]
          = << <<"rock", "grove">>, <<"tree", "glade">> >>
       /\ {"grove", "glade"} \subseteq emittedIds(entry)

(***************************************************************************)
(* Properties of the npc links across source units, checked under Spec.    *)
(***************************************************************************)
\* C24: once every unit is processed, a unit parsed to its end has recorded
\* "Invalid NPC reference" for an inline npc link if and only if the id of
\* the link names no npc entity in the reference set of the whole program,
\* whatever the order of the units.
C24_NpcLinkAgainstWholeProgram ==
    pc = "done" =>
       \A entry \in Ended : \A raw \in npcLinksIn(entry.unit) :
          ~rejected(entry) =>
             ((\E i \in 1..Len(entry.errorList) :
                  /\ entry.errorList[i].text = "Invalid NPC reference"
                  /\ entry.errorList[i].args = <<raw.id>>)
              <=> noNpc(raw.id))

(***************************************************************************)
(* Properties of the order of pass 2, checked under Spec.                  *)
(***************************************************************************)
\* the text and newline runs at the top level of a body as written, in
\* order, and the folded tags of its other elements
writtenTexts(raws) ==
    LET runs == SelectSeq(raws, LAMBDA raw : raw.syntax = "text")
    IN [i \in 1..Len(runs) |-> runs[i].text]

writtenTags(raws) ==
    {toLowerCase(raws[i].tag) : i \in {j \in 1..Len(raws) : raws[j].syntax # "text"}}

\* the same of a body the parser built
builtTexts(body) ==
    LET runs == SelectSeq(body, LAMBDA cmd : cmd.type = "text")
    IN [i \in 1..Len(runs) |-> runs[i].text]

builtTags(body) == {body[i].tag : i \in {j \in 1..Len(body) : body[j].type # "text"}}

\* C25: every entity pass 2 has built holds the body written under its own
\* header: its top-level texts, in order, and the tags of its other
\* top-level nodes are those between that header and the next one.
C25_BodyOfOwnHeader ==
    \A id \in DOMAIN parserOutput :
       \A i \in 1..Len(unit) :
          (unit[i].id = id /\ unit[i].type # "variable") =>
             /\ builtTexts(parserOutput[id].body) = writtenTexts(unit[i].body)
             /\ builtTags(parserOutput[id].body) = writtenTags(unit[i].body)

(***************************************************************************)
(* Properties of the rval of an assignment, checked under Spec.            *)
(***************************************************************************)
\* the macros written at the top level of the bodies of a unit whose
\* descriptor requires an rval and whose header gives one
rvalsIn(decls) ==
    {raw \in UNION {{decls[i].body[j] : j \in 1..Len(decls[i].body)} : i \in 1..Len(decls)} :
        /\ raw.syntax = "macro" /\ isCommandDefinition(toLowerCase(raw.tag))
        /\ definitions[toLowerCase(raw.tag)].rval = "required"
        /\ truthy(raw.rval)}

\* the rval is one of the six kinds of value: an id of the reference set, a
\* boolean literal, numeric text, a flag of the entity named by the id, a
\* built-in function name, a built-in entity name
acceptableRval(rval, lval) ==
    \/ rval \in DOMAIN entityReferences
    \/ rval \in {"true", "false", "on", "off", "yes", "no"}
    \/ rval \in NumericStrings
    \/ lval \in DOMAIN entityReferences /\ rval \in entityReferences[lval].flags
    \/ rval \in globalFuncKeys
    \/ rval \in builtInEntities

\* C26: a unit parsed to its end has recorded "Invalid rval reference" for a
\* macro whose descriptor requires an rval if and only if the rval is none
\* of the six kinds of value.
C26_RvalAcceptedIffOfAKind ==
    \A entry \in Ended : \A raw \in rvalsIn(entry.unit) :
       ~rejected(entry) =>
          ((\E i \in 1..Len(entry.errorList) :
               /\ entry.errorList[i].text = "Invalid rval reference"
               /\ entry.errorList[i].args = <<raw.rval, toLowerCase(raw.tag)>>)
           <=> ~acceptableRval(raw.rval, raw.id))

(***************************************************************************)
(* Properties of the block flow inside a block, checked under SpecWS.      *)
(***************************************************************************)
\* the texts of the whitespace-only text nodes of a body that have a child
\* that is not one before them and after them, in order
interiorWhitespace(body) ==
    LET solid == {i \in 1..Len(body) : ~whitespaceOnly(body[i])}
        inner == {i \in 1..Len(body) :
                     /\ whitespaceOnly(body[i])
                     /\ \E j \in solid : j < i
                     /\ \E j \in solid : j > i}
        RECURSIVE texts(_)
        texts(i) == IF i > Len(body) THEN <<>>
                    ELSE (IF i \in inner THEN <<body[i].text>> ELSE <<>>) \o texts(i + 1)
    IN texts(1)

\* C27: a block node directly in an entity body keeps, after normalization,
\* the newline and whitespace-only text nodes that lie between other
\* children of its body.
C27_BlockKeepsInteriorWhitespace ==
    wsRuns >= 1 =>
       \A cmdKey \in DOMAIN wsInput :
          \A i \in 1..Len(wsInput[cmdKey].body) :
             LET cmd == wsInput[cmdKey].body[i] IN
             (cmd.bk = "array" /\ getCommandDefinitionSafe(cmd, wsInput[cmdKey]).flow = "block") =>
                interiorWhitespace(cmds[cmdKey].body[i].body) = interiorWhitespace(cmd.body)

(***************************************************************************)
(* Properties of the registry keys as tags, checked under Spec.            *)
(***************************************************************************)
\* the tags of the macro-opens of a body, spelled as they are written
RECURSIVE writtenOpens(_)
writtenOpens(raws) ==
    IF raws = <<>> THEN {}
    ELSE (IF Head(raws).syntax \notin {"macro", "option"} THEN {}
          ELSE (IF Head(raws).syntax = "macro" THEN {Head(raws).tag} ELSE {})
               \cup writtenOpens(Head(raws).children))
         \cup writtenOpens(Tail(raws))

\* the registry keys of kind macro, statement or assignment that the
\* macro-opens of a unit carry
keysWritten(decls) ==
    {tag \in UNION {writtenOpens(decls[i].body) : i \in 1..Len(decls)} :
        /\ isCommandDefinition(tag)
        /\ definitions[tag].type \in {"macro", "statement", "assignment"}}

\* C28: a macro-open that carries a registry key of kind macro, statement
\* or assignment resolves, after the case folding of its tag, to the
\* descriptor of that key, and its unit is not rejected for an undefined
\* command of that tag.
C28_EveryRegistryKeyUsable ==
    \A entry \in Ended :
       \A key \in keysWritten(entry.unit) :
          /\ isCommandDefinition(toLowerCase(key))
          /\ definitions[toLowerCase(key)] = definitions[key]
          /\ entry.fatal # [text |-> "Undefined command definition",
                            args |-> <<toLowerCase(key)>>]

MaxCursorTokens == 2  \* tokens after the entity header of a short list

\* the lists the cursor is constructed on: every short body, and the two
\* long ones
CursorTokenLists ==
    {EntityHeader("hall") \o body \o <<EOF>> : body \in TokensUpTo(MaxCursorTokens)}
    \cup {EntityHeader("hall") \o WellFormedBody \o EntityHeader(id) \o <<EOF>> :
             id \in {"hall", "cellar"}}

\* the token types of the token lists
TokenTypes == UNION {{ts[i].type : i \in 1..Len(ts)} : ts \in CursorTokenLists}

\* the type lists the parser passes to check, match and consumeOneOf
TypeLists == {{type} : type \in TokenTypes} \cup {{"WORD", "PHRASE", "PARAGRAPH"}}

\* Cursor.rewind
rewind(i) == IF i > 0 THEN i - 1 ELSE i

\* Cursor.tryConsume(type): false and no move unless the type matches
tryConsume(i, type) == IF ~check(i, {type}) THEN i ELSE advance(i)

\* Cursor.consumeOneOf(...types)
consumeOneOf(i, types) == IF check(i, types) THEN At(advance(i)) ELSE Throws(i)

\* Cursor.consumeAny
consumeAny(i) == advance(i)

\* new Cursor(tokens, filename)
InitCursor ==
    /\ ModulesLoaded
    /\ tokens \in CursorTokenLists
    /\ index = 0
    /\ pass = "constructor"
    /\ frames = <<>>
    /\ keys = <<>>
    /\ keyIndex = 0
    /\ iterated = FALSE
    /\ lastIndex = 0
    /\ ProcessorStart
    /\ cmds = EmptyObject /\ wsInput = EmptyObject /\ wsOnce = EmptyObject /\ wsRuns = 0

\* one call of a cursor operation and what it leaves behind
Operation(op, result) ==
    /\ index' = result.index
    /\ pass' = IF result.thrown THEN "fatal" ELSE op
    /\ lastIndex' = index
    /\ iterated' = TRUE
    /\ UNCHANGED <<frames, keys, keyIndex>>
    /\ Idle

NextCursor ==
    \/ Operation("reinit", At(0))
    \/ Operation("advance", At(advance(index)))
    \/ \E type \in TokenTypes : Operation("consume", consume(index, type, At))
    \/ \E type \in TokenTypes : Operation("tryConsume", At(tryConsume(index, type)))
    \/ \E types \in TypeLists : Operation("consumeOneOf", consumeOneOf(index, types))
    \/ Operation("consumeAny", At(consumeAny(index)))
    \/ \E types \in TypeLists : Operation("match", At(match(index, types)))
    \/ \E type \in TokenTypes : Operation("seek", seek(index, type))
    \/ Operation("rewind", At(rewind(index)))

SpecCursor == InitCursor /\ [][NextCursor]_vars

\* C30: on a token list that ends with EOF, after any sequence of cursor
\* operations the index lies between 0 and the position of the EOF token,
\* so peek returns a token, and advance at the end of the stream leaves the
\* index where it was.
C30_CursorWithinTokens ==
    /\ tokens[Len(tokens)].type = "EOF"
    /\ index \in 0..(Len(tokens) - 1)
    /\ index + 1 \in DOMAIN tokens /\ peek(index).type \in TokenTypes
    /\ (pass \in {"advance", "consumeAny"} /\ isAtEnd(lastIndex)) => index = lastIndex

\* advance has been called at the end of the stream
C30_Witness ==
    /\ iterated
    /\ pass = "advance"
    /\ isAtEnd(lastIndex)
    /\ lastIndex = Len(tokens) - 1
    /\ index = lastIndex

====
